---- MODULE Spec2Model ----
(***************************************************************************)
(* Model of the weather dashboard (cruzaddy91/weather_app): the Streamlit  *)
(* scripts src/app.py and src/weather_app.py and the helpers of            *)
(* src/weather_scraper.py.  One run of a script is one fetch cycle; the    *)
(* CSV file written by app.py is the only state that survives a cycle.     *)
(*                                                                         *)
(* Texts are TLA+ strings; a cell of a table is its raw text and           *)
(* get_text(strip=True) is the operator Strip.  The texts of the model are *)
(* ASCII: the degree sign of the labels and the unit suffix is written     *)
(* deg ("Temperature (degF)").                                             *)
(***************************************************************************)
EXTENDS Integers, Sequences, FiniteSets, TLC

(***************************************************************************)
(* Bounds of the model.                                                    *)
(***************************************************************************)
\* largest number of tables on a served page
MaxTables == 6
\* largest number of date labels of a served forecast table
MaxDates == 2
\* largest number of hour columns of a served forecast table
MaxHours == 2
\* reassembly inputs: longest date list and longest hour list
MaxReDates == 3
MaxReHours == 5
\* export inputs: largest record table handed to the export step
MaxExportRows == 2

(***************************************************************************)
(* Text helpers: Python str operations used by the scripts.                *)
(***************************************************************************)
Char(s, k) == SubSeq(s, k, k)

Digits == {"0", "1", "2", "3", "4", "5", "6", "7", "8", "9"}

DigitVal(c) == CHOOSE n \in 0..9 : ToString(n) = c

\* str.strip() on the blank character
RECURSIVE LStrip(_)
LStrip(s) == IF Len(s) > 0 /\ Char(s, 1) = " " THEN LStrip(SubSeq(s, 2, Len(s))) ELSE s

RECURSIVE RStrip(_)
RStrip(s) ==
    IF Len(s) > 0 /\ Char(s, Len(s)) = " " THEN RStrip(SubSeq(s, 1, Len(s) - 1)) ELSE s

Strip(s) == RStrip(LStrip(s))

\* s.startswith(p)
StartsWith(s, p) == Len(s) >= Len(p) /\ SubSeq(s, 1, Len(p)) = p

\* position of the first occurrence of character c in s at or after k, 0 if none
RECURSIVE FindChar(_, _, _)
FindChar(s, c, k) ==
    IF k > Len(s) THEN 0
    ELSE IF Char(s, k) = c THEN k
    ELSE FindChar(s, c, k + 1)

\* c in s, for a one-character c
Contains(s, c) == FindChar(s, c, 1) # 0

\* s.split(c): the list of the pieces of s between the occurrences of c
RECURSIVE Split(_, _)
Split(s, c) ==
    LET p == FindChar(s, c, 1)
    IN IF p = 0 THEN <<s>>
       ELSE <<SubSeq(s, 1, p - 1)>> \o Split(SubSeq(s, p + 1, Len(s)), c)

\* value of a non-empty string of decimal digits
RECURSIVE NatVal(_)
NatVal(s) ==
    IF Len(s) = 0 THEN 0
    ELSE 10 * NatVal(SubSeq(s, 1, Len(s) - 1)) + DigitVal(Char(s, Len(s)))

AllDigits(s) == Len(s) > 0 /\ \A k \in 1..Len(s) : Char(s, k) \in Digits

\* int(s) succeeds: an optional sign followed by decimal digits
IntOk(s) ==
    /\ Len(s) > 0
    /\ IF Char(s, 1) \in {"+", "-"} THEN AllDigits(SubSeq(s, 2, Len(s))) ELSE AllDigits(s)

\* int(s), for IntOk(s)
IntVal(s) ==
    IF Char(s, 1) = "-" THEN 0 - NatVal(SubSeq(s, 2, Len(s)))
    ELSE IF Char(s, 1) = "+" THEN NatVal(SubSeq(s, 2, Len(s)))
    ELSE NatVal(s)

\* f"{n:02d}"
Pad2(n) == IF n >= 0 /\ n < 10 THEN "0" \o ToString(n) ELSE ToString(n)

(***************************************************************************)
(* datetime: strptime(date, "%m/%d") and strftime("%B %-d").               *)
(***************************************************************************)
MonthNames ==
    << "January", "February", "March", "April", "May", "June", "July",
       "August", "September", "October", "November", "December" >>

\* days of each month of the year 1900, the year strptime assumes
DaysInMonth == << 31, 28, 31, 30, 31, 30, 31, 31, 30, 31, 30, 31 >>

\* number of characters the directive %m takes at the head of s (0: no match)
MonthWidth(s) ==
    IF Len(s) >= 2 /\ Char(s, 1) = "1" /\ Char(s, 2) \in {"0", "1", "2"} THEN 2
    ELSE IF Len(s) >= 2 /\ Char(s, 1) = "0" /\ Char(s, 2) \in Digits \ {"0"} THEN 2
    ELSE IF Len(s) >= 1 /\ Char(s, 1) \in Digits \ {"0"} THEN 1
    ELSE 0

\* number of characters the directive %d takes at the head of s (0: no match)
DayWidth(s) ==
    IF Len(s) >= 2 /\ Char(s, 1) = "3" /\ Char(s, 2) \in {"0", "1"} THEN 2
    ELSE IF Len(s) >= 2 /\ Char(s, 1) \in {"1", "2"} /\ Char(s, 2) \in Digits THEN 2
    ELSE IF Len(s) >= 2 /\ Char(s, 1) = "0" /\ Char(s, 2) \in Digits \ {"0"} THEN 2
    ELSE IF Len(s) >= 1 /\ Char(s, 1) \in Digits \ {"0"} THEN 1
    ELSE IF Len(s) >= 2 /\ Char(s, 1) = " " /\ Char(s, 2) \in Digits \ {"0"} THEN 2
    ELSE 0

\* datetime.datetime.strptime(s, "%m/%d"): [ok, month, day]; ok = FALSE is ValueError
Strptime(s) ==
    LET bad == [ok |-> FALSE, month |-> 0, day |-> 0]
        mw  == MonthWidth(s)
    IN IF mw = 0 \/ Len(s) < mw + 1 \/ Char(s, mw + 1) # "/" THEN bad
       ELSE LET rest == SubSeq(s, mw + 2, Len(s))
                dw   == DayWidth(rest)
            IN IF dw = 0 \/ dw # Len(rest) THEN bad
               ELSE LET m == NatVal(SubSeq(s, 1, mw))
                        d == NatVal(LStrip(rest))
                    IN IF d > DaysInMonth[m] THEN bad
                       ELSE [ok |-> TRUE, month |-> m, day |-> d]

\* dt.strftime("%B %-d")
Strftime(dt) == MonthNames[dt.month] \o " " \o ToString(dt.day)

\* one or two decimal digits
ShortNumber(s) == Len(s) \in {1, 2} /\ AllDigits(s)

NoDatetime == [ok |-> FALSE, month |-> 0, day |-> 0, hour |-> 0]

\* datetime.datetime.strptime(text, "%B %d %H:%M") for a text whose fields are
\* separated by single blanks; ok = FALSE when it raises ValueError
StrptimeLong(text) ==
    LET words == Split(text, " ")
    IN IF Len(words) # 3 THEN NoDatetime
       ELSE LET clock  == Split(words[3], ":")
                months == { m \in 1..12 : MonthNames[m] = words[1] }
            IN IF months = { } \/ ~ShortNumber(words[2]) \/ Len(clock) # 2 THEN NoDatetime
               ELSE IF ~ShortNumber(clock[1]) \/ ~ShortNumber(clock[2]) THEN NoDatetime
               ELSE LET m == CHOOSE m \in months : TRUE
                        d == NatVal(words[2])
                    IN IF d < 1 \/ d > DaysInMonth[m] \/ NatVal(clock[1]) > 23
                          \/ NatVal(clock[2]) > 59
                       THEN NoDatetime
                       ELSE [ok |-> TRUE, month |-> m, day |-> d, hour |-> NatVal(clock[1])]

\* parse_datetime(date_str): None (ok = FALSE) when the body raises
ParseDatetime(date_str) ==
    LET parts == Split(date_str, ",")
    IN IF Len(parts) # 2 THEN NoDatetime
       ELSE StrptimeLong(Strip(parts[1]) \o " " \o Strip(parts[2]))

(***************************************************************************)
(* The digital-forecast page as the server may answer it.  A page is the   *)
(* list of its tables in document order, a table the list of its rows, a   *)
(* row the list of the raw texts of its td/th cells.                       *)
(***************************************************************************)
\* the sparse day labels of a forecast table
DateToken(k) == "5/" \o ToString(9 + k)

\* n consecutive hour labels from hour `start`
HourTokens(start, n) == [k \in 1..n |-> ToString((start + k - 1) % 24)]

\* n value cells of one weather element
ValueTokens(base, n) == [k \in 1..n |-> ToString(base + k)]

\* the cells of a Date row: every label is padded and followed by a blank cell
DateCells(ds) == [k \in 1..(2 * Len(ds)) |-> IF k % 2 = 1 THEN " " \o ds[(k + 1) \div 2] ELSE " "]

\* a forecast table with the given labels and value cells
ForecastTable(ds, hs, ts, ws, us) ==
    << <<" Date ">> \o DateCells(ds),
       <<"Hour (MDT)">> \o hs,
       <<"Temperature (degF)">> \o ts,
       <<"Dewpoint (degF)">> \o ts,
       << >>,
       <<"Surface Wind (mph)">> \o ws,
       <<"Relative Humidity (%)">> \o us >>

\* a layout table; its Date row tells the tables apart
LayoutTable(k) == << <<"Date", "1/" \o ToString(k)>>, <<"Layout">> >>

\* the known layout: the forecast table stands after four layout tables
ForecastPage(table) == [k \in 1..MaxTables |-> IF k = 5 THEN table ELSE LayoutTable(k)]

\* a drifted layout: n layout tables and no forecast table
LayoutPage(n) == [k \in 1..n |-> LayoutTable(k)]

\* a drifted layout: the forecast table stands one table later
ShiftedPage(table) == [k \in 1..MaxTables |-> IF k = 6 THEN table ELSE LayoutTable(k)]

\* numbers of temperature, wind and humidity cells served with h hour columns
ValueLengths(h) ==
    { <<h, h, h>>, <<h + 1, h, h>>, <<h, h + 1, h>>, <<h, h, IF h > 0 THEN h - 1 ELSE h + 1>> }

\* the forecast tables of the fetch cycles
CycleTables ==
    { ForecastTable([k \in 1..d |-> DateToken(k)], HourTokens(22, h),
                    ValueTokens(50, l[1]), ValueTokens(0, l[2]), ValueTokens(40, l[3])) :
        <<d, h, l>> \in { <<d, h, l>> \in (0..MaxDates) \X (0..MaxHours) \X
                            UNION { ValueLengths(h) : h \in 0..MaxHours } :
                          l \in ValueLengths(h) } }

\* the pages a fetch cycle may be served
PageSet ==
    { ForecastPage(t) : t \in CycleTables } \cup { LayoutPage(n) : n \in 0..MaxTables }
        \cup { ShiftedPage(ForecastTable(<<DateToken(1)>>, <<"22">>, <<"51">>, <<"1">>, <<"41">>)) }

\* an answer to the request for the digital-forecast page
TablesReply(status, tables) == [reached |-> TRUE, status |-> status, tables |-> tables]

\* the answers a fetch cycle may get: the pages with the success status, and with
\* them a failure page without a table and a failure status in front of a forecast page
PageAnswers == { TablesReply(200, p) : p \in PageSet }

DigitalAnswers ==
    PageAnswers
        \cup { TablesReply(500, LayoutPage(0)),
               TablesReply(503, ForecastPage(ForecastTable(<<DateToken(1)>>, <<"22">>,
                                                           <<"51">>, <<"1">>, <<"41">>))) }

\* all lists over the set S of length at most n
RECURSIVE ListsUpTo(_, _)
ListsUpTo(S, n) ==
    IF n = 0 THEN { << >> }
    ELSE LET shorter == ListsUpTo(S, n - 1)
         IN shorter \cup { Append(l, x) : <<l, x>> \in { l \in shorter : Len(l) = n - 1 } \X S }

\* date labels of the reassembly inputs: two days and a label that is no month/day
ReDateTokens == {"5/10", "5/11", "13/1"}

\* hour lists of the reassembly inputs: consecutive hours, the last one possibly no integer
ReHourLists ==
    LET good == { HourTokens(start, n) : <<start, n>> \in {22, 0} \X (0..MaxReHours) }
    IN good \cup { [l EXCEPT ![Len(l)] = "x"] : l \in { g \in good : Len(g) > 0 } }

\* the pages of the reassembly inputs: labels only
ReassemblyPages ==
    { ForecastPage(ForecastTable(ds, hs, << >>, << >>, << >>)) :
        <<ds, hs>> \in ListsUpTo(ReDateTokens, MaxReDates) \X ReHourLists }
        \cup { LayoutPage(0) }

\* the pages of the export inputs: texts with the delimiter and the quote character
ExportPages ==
    { ForecastPage(ForecastTable(ds, HourTokens(23, Len(ts)), ts,
                                 ValueTokens(0, Len(ts)), ValueTokens(40, Len(ts)))) :
        <<ds, ts>> \in (ListsUpTo({"5/10", "Sat, 5/10"}, MaxExportRows))
                          \X ListsUpTo({"59", "5\"9", "1,5"}, MaxExportRows) }

\* n value cells of which the one at `hole` (if any) reads N/A
HoledTokens(base, n, hole) == [k \in 1..n |-> IF k = hole THEN "N/A" ELSE ToString(base + k)]

\* most hour columns of the display inputs
MaxDisplayRows == 12

\* the pages of the display inputs: one day of n hours, every value present or
\* one temperature missing at the first or at the last hour
DisplayPages ==
    { ForecastPage(ForecastTable(IF n = 0 THEN << >> ELSE <<DateToken(1)>>, HourTokens(22, n),
                                 HoledTokens(50, n, hole), ValueTokens(0, n),
                                 ValueTokens(40, n))) :
        <<n, hole>> \in { <<n, hole>> \in (0..MaxDisplayRows) \X (0..MaxDisplayRows) :
                            hole \in {0, 1, n} } }

\* most rows of the tables of the row-walk inputs
MaxWalkRows == 3

\* rows of the row-walk inputs: the five labels (padded, with blank cells between
\* the values), a second Hour label, labels that are none of the five, and a
\* row without cells
WalkRowKinds ==
    { <<" Date ", " 5/10", " ", "5/11 ">>,
      <<"Hour (MDT)", "22", "", "23">>,
      <<"Hour (UTC)", "4">>,
      <<"Temperature (degF)", "51", " ", "52">>,
      <<"Surface Wind (mph)", "1">>,
      <<" Relative Humidity (%)", "41">>,
      <<"Dewpoint (degF)", "40">>,
      <<"Wind Hour (MDT)", "7">>,
      <<"date", "5/12">>,
      << >> }

\* the pages of the row-walk inputs: every table of such rows, rows repeated
WalkPages == { ForecastPage(t) : t \in ListsUpTo(WalkRowKinds, MaxWalkRows) }

\* most hour columns of the formatting inputs
MaxFormatHours == 3

\* the pages of the formatting inputs: day labels that are and are not a
\* month/day, hour labels that are and are not integers at any position, and a
\* value of every element for every hour
FormatPages ==
    { ForecastPage(ForecastTable(ds, hs, ValueTokens(50, Len(hs)), ValueTokens(0, Len(hs)),
                                 ValueTokens(40, Len(hs)))) :
        <<ds, hs>> \in {<<"5/10">>, <<"13/1">>, <<"5/10", "13/1">>}
                          \X ListsUpTo({"22", "0", "x"}, MaxFormatHours) }

(***************************************************************************)
(* The lookups at the head of a run (app.py 122-126, weather_app.py        *)
(* 529-533, weather_scraper.py 10-48, 167-206).                            *)
(***************************************************************************)
\* the default of st.text_input("Enter city name, state", ...)
Location == "Salt Lake City, UT"

\* sub in s
HasSub(s, sub) == \E k \in 1..(Len(s) - Len(sub) + 1) : SubSeq(s, k, k + Len(sub) - 1) = sub

\* candidates the geocoder may rank
SaltLake == [lat |-> "40.76", lon |-> "-111.89"]
Denver   == [lat |-> "39.74", lon |-> "-104.98"]

NoCoord == [bound |-> FALSE, lat |-> "", lon |-> ""]

\* an answer of a service: reached = FALSE when requests.get raises
Reply(status, json, cands) ==
    [reached |-> TRUE, status |-> status, json |-> json, cands |-> cands]

Down == [reached |-> FALSE, status |-> 0, json |-> FALSE, cands |-> << >>]

\* the answers of the geocoder to a search
GeoAnswers ==
    { Down, Reply(500, TRUE, << >>), Reply(200, TRUE, << >>),
      Reply(200, TRUE, <<SaltLake>>), Reply(200, TRUE, <<Denver, SaltLake>>) }

\* the answers of the geocoder to a search, the service working or not
GeoAnswersPlain == { Reply(500, TRUE, << >>), Reply(200, TRUE, <<SaltLake>>) }

\* the answer of the geocoder that knows the location
GeoAnswersFound == { Reply(200, TRUE, <<SaltLake>>) }

\* the answers of the geocoder to a reverse lookup
ReverseAnswers ==
    { Down, Reply(200, TRUE, << >>), Reply(404, TRUE, << >>), Reply(502, FALSE, << >>) }

ReverseAnswersPlain == { Reply(200, TRUE, << >>) }

\* str(e) of the exception requests.get raises when the service is not reached
ConnectionText == "Connection refused"

\* get_coordinates without the `if not data` test: data[0] raises IndexError
GetCoordinatesNoCheck(loc, a) ==
    IF ~a.reached
    THEN [ok |-> FALSE, coord |-> NoCoord, slept |-> FALSE, kind |-> "Exception",
          msg |-> "Error getting coordinates: " \o ConnectionText]
    ELSE IF a.status # 200
    THEN [ok |-> FALSE, coord |-> NoCoord, slept |-> FALSE, kind |-> "Exception",
          msg |-> "Error getting coordinates: Geocoding API request failed with status code: "
                    \o ToString(a.status)]
    ELSE IF Len(a.cands) = 0
    THEN [ok |-> FALSE, coord |-> NoCoord, slept |-> FALSE, kind |-> "Exception",
          msg |-> "Error getting coordinates: list index out of range"]
    ELSE [ok |-> TRUE, slept |-> TRUE, kind |-> "", msg |-> "",
          coord |-> [bound |-> TRUE, lat |-> a.cands[1].lat, lon |-> a.cands[1].lon]]

\* get_coordinates(location) on the answer a: the coordinate returned, or the class
\* and message of the exception raised (every failure is re-raised as Exception by
\* the handler of the function); slept = time.sleep(1) was reached
GetCoordinates(loc, a) ==
    IF ~a.reached
    THEN [ok |-> FALSE, coord |-> NoCoord, slept |-> FALSE, kind |-> "Exception",
          msg |-> "Error getting coordinates: " \o ConnectionText]
    ELSE IF a.status # 200
    THEN [ok |-> FALSE, coord |-> NoCoord, slept |-> FALSE, kind |-> "Exception",
          msg |-> "Error getting coordinates: Geocoding API request failed with status code: "
                    \o ToString(a.status)]
    ELSE IF Len(a.cands) = 0
    THEN [ok |-> FALSE, coord |-> NoCoord, slept |-> FALSE, kind |-> "Exception",
          msg |-> "Error getting coordinates: No coordinates found for location: " \o loc]
    ELSE [ok |-> TRUE, slept |-> TRUE, kind |-> "", msg |-> "",
          coord |-> [bound |-> TRUE, lat |-> a.cands[1].lat, lon |-> a.cands[1].lon]]

\* a response without a current-conditions body
NoBody == [temp |-> [present |-> FALSE, text |-> ""], cond |-> [present |-> FALSE, text |-> ""],
           detail |-> << >>]

\* one entry of the log of requests sent in a run; gap is the time elapsed for
\* certain since the last request to the geocoding service
Request(svc, a, gap, c) ==
    [svc |-> svc, reached |-> a.reached, status |-> a.status, gap |-> gap, coord |-> c,
     cands |-> IF svc = "geocode" THEN a.cands ELSE << >>,
     body |-> IF svc = "current" THEN a.body ELSE NoBody]

\* a get_coordinates that asks again when the first attempt failed
GeocodeRequestsRetry(a, gap) ==
    IF GetCoordinates(Location, a).ok THEN << Request("geocode", a, gap, NoCoord) >>
    ELSE << Request("geocode", a, gap, NoCoord), Request("geocode", a, 0, NoCoord) >>

\* the requests one call of get_coordinates sends: response = requests.get(url, ...)
GeocodeRequests(a, gap) == << Request("geocode", a, gap, NoCoord) >>

\* a marker of the current-conditions page: an element of a class, or none
Marker(text) == [present |-> TRUE, text |-> text]
NoMarker     == [present |-> FALSE, text |-> ""]

\* temp.text.strip() without the `if temp else` guard
MarkerTextUnguarded(m) == Strip(m.text)

\* temp.text.strip() if temp else "N/A"
MarkerText(m) == IF m.present THEN Strip(m.text) ELSE "N/A"

\* a loop in which the first matching row wins
RECURSIVE DetailFromFirst(_, _, _)
DetailFromFirst(acc, rws, k) ==
    IF k > Len(rws) THEN acc
    ELSE IF Len(rws[k]) = 2
         THEN LET label == Strip(rws[k][1])
                  value == Strip(rws[k][2])
              IN DetailFromFirst(
                     [humidity |-> IF HasSub(label, "Humidity") /\ acc.humidity = "N/A"
                                   THEN value ELSE acc.humidity,
                      wind |-> IF HasSub(label, "Wind") /\ acc.wind = "N/A"
                               THEN value ELSE acc.wind],
                     rws, k + 1)
         ELSE DetailFromFirst(acc, rws, k + 1)

\* the loop over soup.select("#current_conditions_detail tr"); a row is the
\* list of the texts of its td cells
RECURSIVE DetailFrom(_, _, _)
DetailFrom(acc, rws, k) ==
    IF k > Len(rws) THEN acc
    ELSE IF Len(rws[k]) = 2
         THEN LET label == Strip(rws[k][1])
                  value == Strip(rws[k][2])
              IN DetailFrom([humidity |-> IF HasSub(label, "Humidity") THEN value
                                          ELSE acc.humidity,
                             wind |-> IF HasSub(label, "Wind") THEN value ELSE acc.wind],
                            rws, k + 1)
         ELSE DetailFrom(acc, rws, k + 1)

NoWeather ==
    [bound |-> FALSE, temperature |-> "", humidity |-> "", wind_speed |-> "", conditions |-> ""]

\* the dict get_weather_data_html_weather_gov returns for a page body
ParseCurrent(body) ==
    LET detail == DetailFrom([humidity |-> "N/A", wind |-> "N/A"], body.detail, 1)
    IN [bound |-> TRUE,
        temperature |-> MarkerText(body.temp),
        humidity |-> detail.humidity,
        wind_speed |-> detail.wind,
        conditions |-> MarkerText(body.cond)]

\* bodies of the current-conditions page
Body(temp, cond, detail) == [temp |-> temp, cond |-> cond, detail |-> detail]

DetailRows ==
    { << >>,
      << <<" Humidity ", " 41% ">> >>,
      << <<"Wind Speed", "S 5 mph">> >>,
      << <<"Humidity", "41%">>, <<"Wind Speed", "S 5 mph">>, <<"Barometer", "30.01 in">> >>,
      << <<"Humidity", "41%">>, <<"Wind Speed", "S 5 mph">>, <<"Wind Chill", "28degF">> >>,
      << <<"Humidity", "41%", "">>, <<"Wind Speed">> >>,
      << <<"Humidity", "41%">>, <<"Humidity", " 39% ">>, <<"Wind Speed", "S 5 mph">> >>,
      << <<"Humidity", "41%">>, <<"Wind and Humidity", "both">>,
         <<"Wind Speed", "S 5 mph", "">> >> }

CurrentBodies ==
    { Body(t, c, d) : <<t, c, d>> \in {NoMarker, Marker(" 59degF "), Marker("59")}
                                        \X {NoMarker, Marker(" Fair ")} \X DetailRows }

\* the page of a working service
PlainBody ==
    Body(Marker("59degF"), Marker("Fair"),
         << <<"Humidity", "41%">>, <<"Wind Speed", "S 5 mph">> >>)

\* the answers to the request for the current-conditions page
PageReply(status, body) == [reached |-> TRUE, status |-> status, body |-> body]

PageDown == [reached |-> FALSE, status |-> 0, body |-> Body(NoMarker, NoMarker, << >>)]

CurrentAnswers ==
    { PageReply(200, b) : b \in CurrentBodies }
        \cup { PageDown, PageReply(500, Body(NoMarker, NoMarker, << >>)),
               PageReply(503, PlainBody) }

CurrentAnswersPlain == { PageReply(200, PlainBody), PageDown }

\* the answers to the request for the graphical page: reached, and whether
\* every `var ... = [...]` list of its scripts is a list of integers
HourlyAnswers ==
    { [reached |-> TRUE, status |-> 200, numbers |-> TRUE],
      [reached |-> TRUE, status |-> 404, numbers |-> TRUE],
      [reached |-> TRUE, status |-> 200, numbers |-> FALSE],
      [reached |-> FALSE, status |-> 0, numbers |-> FALSE] }

HourlyAnswersPlain == { [reached |-> TRUE, status |-> 200, numbers |-> TRUE] }

(***************************************************************************)
(* Row walk (app.py 243-261, weather_app.py 576-594).                      *)
(***************************************************************************)
\* every cell after the label kept, the blank ones as well
NonEmptyTailAll(cells, k) == [j \in 1..(Len(cells) - k + 1) |-> Strip(cells[j + k - 1])]

\* [c.get_text(strip=True) for c in cells[1:] if c.get_text(strip=True)]
RECURSIVE NonEmptyTail(_, _)
NonEmptyTail(cells, k) ==
    IF k > Len(cells) THEN << >>
    ELSE (IF Strip(cells[k]) # "" THEN <<Strip(cells[k])>> ELSE << >>)
             \o NonEmptyTail(cells, k + 1)

\* cells and cells[0].get_text(strip=True) ...
Label(cells) == Strip(cells[1])

IsDateRow(cells)  == Len(cells) > 0 /\ Label(cells) = "Date"
IsHourRow(cells)  == Len(cells) > 0 /\ StartsWith(Label(cells), "Hour (")
IsTempRow(cells)  == Len(cells) > 0 /\ Label(cells) = "Temperature (degF)"
IsWindRow(cells)  == Len(cells) > 0 /\ Label(cells) = "Surface Wind (mph)"
IsHumRow(cells)   == Len(cells) > 0 /\ Label(cells) = "Relative Humidity (%)"

\* one iteration of `for row in rows`
WalkRow(acc, cells) ==
    LET vals == NonEmptyTail(cells, 2)
    IN [ dates |-> IF IsDateRow(cells) THEN acc.dates \o vals ELSE acc.dates,
         hours |-> IF IsHourRow(cells) THEN acc.hours \o vals ELSE acc.hours,
         temps |-> IF IsTempRow(cells) THEN acc.temps \o vals ELSE acc.temps,
         winds |-> IF IsWindRow(cells) THEN acc.winds \o vals ELSE acc.winds,
         hums  |-> IF IsHumRow(cells) THEN acc.hums \o vals ELSE acc.hums ]

RECURSIVE WalkFrom(_, _, _)
WalkFrom(acc, rws, k) ==
    IF k > Len(rws) THEN acc ELSE WalkFrom(WalkRow(acc, rws[k]), rws, k + 1)

\* all_dates = [] ... humidity_values = [] at the head of every run
FreshList(old) == << >>

(***************************************************************************)
(* The view section (app.py 454-558, weather_app.py 758-1094): the show_*  *)
(* flags of st.session_state, the dispatch on them and the buttons.        *)
(***************************************************************************)
\* a key of st.session_state holds "absent" until it is first assigned
FlagKeys ==
    {"show_scatter", "show_humidity", "show_wind", "show_temp_humidity",
     "show_humidity_scatter"}

NoSession == [k \in FlagKeys |-> "absent"]

NoButton == "none"

\* the flags of the four views of weather_app.py
ViewFlags == {"show_scatter", "show_humidity", "show_wind", "show_temp_humidity"}

\* if key not in st.session_state: st.session_state[key] = False
InitKeys(a) == IF a = "app" THEN {"show_scatter"} ELSE ViewFlags

Initialised(a, s) ==
    [k \in FlagKeys |-> IF k \in InitKeys(a) /\ s[k] = "absent" THEN "False" ELSE s[k]]

\* st.session_state[key], st.session_state.get(key, False)
IsOn(s, k) == s[k] = "True"

\* assignments of True to the keys `on` and of False to the keys `off`
SetFlags(s, on, off) ==
    [k \in FlagKeys |-> IF k \in on THEN "True" ELSE IF k \in off THEN "False" ELSE s[k]]

\* a callback that shows two views at once
OnClickBoth(a, b, s) ==
    IF b = "temp_humidity_btn" THEN SetFlags(s, {"show_scatter", "show_humidity"}, { })
    ELSE IF b = "scatter_btn" THEN SetFlags(s, {"show_scatter"}, { })
    ELSE IF b = "humidity_btn" THEN SetFlags(s, {"show_humidity"}, { })
    ELSE IF b = "wind_btn" THEN SetFlags(s, {"show_wind"}, { })
    ELSE s

\* the on_click callback of button b, run before the script reruns
OnClick(a, b, s) ==
    IF a = "app"
    THEN IF b = "scatter_btn" THEN SetFlags(s, {"show_scatter"}, { })
         ELSE IF b = "humidity_btn" THEN SetFlags(s, {"show_humidity_scatter"}, { })
         ELSE s
    ELSE IF b = "scatter_btn"
         THEN SetFlags(s, {"show_scatter"}, ViewFlags \ {"show_scatter"})
         ELSE IF b = "humidity_btn"
         THEN SetFlags(s, {"show_humidity"}, ViewFlags \ {"show_humidity"})
         ELSE IF b = "wind_btn"
         THEN SetFlags(s, {"show_wind"}, ViewFlags \ {"show_wind"})
         ELSE IF b = "temp_humidity_btn"
         THEN SetFlags(s, {"show_temp_humidity"}, ViewFlags \ {"show_temp_humidity"})
         ELSE s

\* the branch of the if/elif chain the run takes; "blank" when none is taken
ViewOf(a, s) ==
    IF a = "app"
    THEN IF ~IsOn(s, "show_scatter") /\ ~IsOn(s, "show_humidity_scatter") THEN "dashboard"
         ELSE IF IsOn(s, "show_humidity_scatter") THEN "humidity"
         ELSE "blank"
    ELSE IF \A k \in ViewFlags : ~IsOn(s, k) THEN "dashboard"
         ELSE IF IsOn(s, "show_scatter") THEN "scatter"
         ELSE IF IsOn(s, "show_temp_humidity") THEN "temp_humidity"
         ELSE IF IsOn(s, "show_humidity") THEN "humidity"
         ELSE IF IsOn(s, "show_wind") THEN "wind"
         ELSE "blank"

\* the row of view buttons of the dashboard
DashboardButtons(a) ==
    IF a = "app" THEN {"scatter_btn", "humidity_btn"}
    ELSE {"scatter_btn", "humidity_btn", "wind_btn", "temp_humidity_btn"}

\* the keys of the st.button calls of a branch
ButtonsOf(a, view) ==
    IF view = "dashboard" THEN DashboardButtons(a)
    ELSE IF a = "app"
    THEN IF view = "humidity" THEN {"back_btn_humidity"} ELSE { }
    ELSE IF view = "scatter" THEN {"back_btn"}
         ELSE IF view = "temp_humidity" THEN {"back_btn_temp_humidity"}
         ELSE IF view = "humidity" THEN {"back_btn_temp_humidity"}
         ELSE IF view = "wind" THEN {"back_btn_wind"}
         ELSE { }

\* the body of `if st.button(...)` of the button b of a branch
Pressed(a, view, b, s) ==
    IF a = "app"
    THEN IF view = "humidity" THEN SetFlags(s, { }, {"show_humidity_scatter"}) ELSE s
    ELSE IF view = "dashboard"
         THEN IF b = "scatter_btn" THEN SetFlags(s, {"show_scatter"}, { })
              ELSE IF b = "humidity_btn" THEN SetFlags(s, {"show_humidity"}, { })
              ELSE IF b = "wind_btn" THEN SetFlags(s, {"show_wind"}, { })
              ELSE SetFlags(s, {"show_temp_humidity"}, { })
         ELSE IF view = "scatter" THEN SetFlags(s, { }, {"show_scatter"})
         ELSE IF view = "temp_humidity" THEN SetFlags(s, { }, {"show_temp_humidity"})
         ELSE IF view = "humidity" THEN SetFlags(s, { }, {"show_temp_humidity"})
         ELSE SetFlags(s, { }, {"show_wind"})

\* st.experimental_rerun() in the body of the button
AsksRerun(a, view) == a = "app" /\ view = "humidity"

\* the view section of a run started by a click on b (NoButton: by no click):
\* st.button is true for the button of this run that was clicked
ViewSection(a, s0, b) ==
    LET s    == Initialised(a, s0)
        view == ViewOf(a, s)
        hit  == b \in ButtonsOf(a, view)
    IN [session |-> IF hit THEN Pressed(a, view, b, s) ELSE s,
        buttons |-> ButtonsOf(a, view),
        view    |-> view,
        rerun   |-> hit /\ AsksRerun(a, view)]

(***************************************************************************)
(* The trend indicators of the metric cards (app.py 73-86, 219-230,        *)
(* weather_app.py 136-149, 552-563).                                       *)
(***************************************************************************)
\* None, as a value of a cell or of an argument
NoneVal == [kind |-> "none", s |-> "", v |-> 0]

\* what the name get_historical_data is bound to in the entry points: nothing
\* defines or imports it
HistoricalBinding == "undefined"

\* the call get_historical_data(location, yesterday, yesterday)
HistoricalData(binding) ==
    IF binding = "undefined" THEN [raised |-> TRUE, kind |-> "NameError"]
    ELSE [raised |-> FALSE, kind |-> ""]

\* an except clause that lets every exception through
CaughtByNothing(kind) == FALSE

\* except Exception: the exceptions that are no Exception pass
CaughtByException(kind) == kind \notin {"KeyboardInterrupt", "SystemExit", "GeneratorExit"}

\* except Exception: yest_temp = yest_hum = yest_wind = None; no frame is ever
\* returned, the name being undefined
YestValues(r) ==
    [bound |-> TRUE, absorbed |-> r.kind, temp |-> NoneVal, hum |-> NoneVal, wind |-> NoneVal]

NoYest == [bound |-> FALSE, absorbed |-> "", temp |-> NoneVal, hum |-> NoneVal, wind |-> NoneVal]

NoArrows == [bound |-> FALSE, temp |-> "", hum |-> "", wind |-> ""]

UpMarker == "<span style='color:#43a047;font-size:1.1em;'>&#8593;</span>"

DownMarker == "<span style='color:#e53935;font-size:1.1em;'>&#8595;</span>"

\* float(x): of a number the number, of a text its number when the trimmed text
\* is one (integer texts are served), NaN of the text "nan", and an exception of
\* any other text and of None
Float(x) ==
    IF x.kind = "num" THEN [ok |-> TRUE, nan |-> FALSE, v |-> x.v]
    ELSE IF x.kind = "nan" THEN [ok |-> TRUE, nan |-> TRUE, v |-> 0]
    ELSE IF x.kind = "str" /\ IntOk(Strip(x.s)) THEN [ok |-> TRUE, nan |-> FALSE, v |-> IntVal(Strip(x.s))]
    ELSE IF x.kind = "str" /\ Strip(x.s) = "nan" THEN [ok |-> TRUE, nan |-> TRUE, v |-> 0]
    ELSE [ok |-> FALSE, nan |-> FALSE, v |-> 0]

\* pd.isna(x) of a scalar
IsNa(x) == x.kind \in {"none", "nan"}

\* the body of the try block of arrow
ArrowBody(val, yest_v) ==
    IF yest_v.kind = "none" \/ val.kind = "none" \/ IsNa(val) \/ IsNa(yest_v)
    THEN [raised |-> FALSE, text |-> ""]
    ELSE LET val_f  == Float(val)
             yest_f == Float(yest_v)
         IN IF ~val_f.ok \/ ~yest_f.ok THEN [raised |-> TRUE, text |-> ""]
            ELSE IF ~val_f.nan /\ ~yest_f.nan /\ val_f.v > yest_f.v
                 THEN [raised |-> FALSE, text |-> UpMarker]
            ELSE IF ~val_f.nan /\ ~yest_f.nan /\ val_f.v < yest_f.v
                 THEN [raised |-> FALSE, text |-> DownMarker]
            ELSE [raised |-> FALSE, text |-> ""]

\* arrow without its except clause
ArrowUncaught(val, yest_v) == ArrowBody(val, yest_v)

\* arrow(val, yest): except Exception: return ""
Arrow(val, yest_v) ==
    LET b == ArrowBody(val, yest_v)
    IN IF b.raised THEN [raised |-> FALSE, text |-> ""] ELSE b

\* the arguments arrow is applied to
ArrowValues ==
    { NoneVal, [kind |-> "nan", s |-> "", v |-> 0],
      [kind |-> "num", s |-> "", v |-> 59], [kind |-> "num", s |-> "", v |-> 61],
      [kind |-> "num", s |-> "", v |-> 0 - 3],
      [kind |-> "str", s |-> "59", v |-> 0], [kind |-> "str", s |-> " 61 ", v |-> 0],
      [kind |-> "str", s |-> "-3", v |-> 0], [kind |-> "str", s |-> "59degF", v |-> 0],
      [kind |-> "str", s |-> "N/A", v |-> 0], [kind |-> "str", s |-> "nan", v |-> 0],
      [kind |-> "str", s |-> "", v |-> 0] }

NoCall == [called |-> FALSE, returned |-> FALSE, val |-> NoneVal, yest |-> NoneVal,
           out |-> [raised |-> FALSE, text |-> ""]]

(***************************************************************************)
(* State.                                                                  *)
(***************************************************************************)
VARIABLES
    app,              \* the entry point that runs: "app" or "weather_app"
    pc,               \* position of the run in the script
    is_night,         \* the theme switch computed from the clock
    page,             \* the digital-forecast page of this run
    rows,             \* rows of the selected table
    all_dates, all_hours, temp_values, wind_values, humidity_values,
    combined,         \* the [date, hour] pairs
    di,               \* number of dates the reassembly loop has processed
    idx,              \* cursor of the reassembly loop into all_hours
    hours,            \* the hour block of the last processed date
    formatted,        \* display dates
    df,               \* the record table
    df_display,       \* the display table
    rendered,         \* what this run has put on the screen
    err,              \* the exception that ended this run
    csv,              \* weather_data.csv
    last_export,      \* history: record table of the last run that exported
    prev_page,        \* history: page of the last earlier run that fetched one
    prev_out,         \* history: what that run made of it
    coord,            \* lat, lon of the run
    url_coord,        \* the coordinate weather_gov_url names
    current_weather,  \* the current-conditions dict
    requests,         \* history: the requests this run has sent, in order
    geo_calls,        \* history: calls of get_coordinates in this run
    geo_gap,          \* time elapsed for certain since the last geocoder request (0 or 1)
    session_state,    \* st.session_state: the show_* flags, kept across runs
    clicked,          \* the button whose click started this run
    buttons,          \* the buttons this run has put on the screen
    yest,             \* yest_temp, yest_hum, yest_wind of this run
    arrows,           \* temp_arrow, hum_arrow, wind_arrow of this run
    arrow_call        \* a call of arrow: its arguments and what it returned

lookups == << coord, url_coord, current_weather, requests, geo_calls, geo_gap >>

locals == << is_night, page, rows, all_dates, all_hours, temp_values, wind_values,
             humidity_values, combined, di, idx, hours, formatted, df, df_display,
             rendered, err >>

ui == << session_state, clicked, buttons >>

trend == << yest, arrows, arrow_call >>

vars == << app, pc, locals, lookups, ui, trend, csv, last_export, prev_page, prev_out >>

NoPage    == [fetched |-> FALSE, status |-> 0, tables |-> << >>]
NoDf      == [built |-> FALSE, rows |-> << >>]
NoErr     == [raised |-> FALSE, kind |-> "", at |-> "", msg |-> ""]
NoFile    == [exists |-> FALSE, lines |-> << >>]
NoOutcome == [df |-> NoDf, err |-> NoErr]

\* a fresh run of the script: no local is bound yet
FreshLocals ==
    /\ is_night = FALSE
    /\ page = NoPage
    /\ rows = << >>
    /\ all_dates = << >> /\ all_hours = << >>
    /\ temp_values = << >> /\ wind_values = << >> /\ humidity_values = << >>
    /\ combined = << >> /\ di = 0 /\ idx = 0 /\ hours = << >>
    /\ formatted = << >>
    /\ df = NoDf /\ df_display = NoDf
    /\ rendered = {}
    /\ err = NoErr
    /\ coord = NoCoord /\ url_coord = NoCoord
    /\ current_weather = NoWeather
    /\ requests = << >>
    /\ geo_calls = 0
    /\ session_state = NoSession /\ clicked = NoButton /\ buttons = {}
    /\ yest = NoYest /\ arrows = NoArrows

\* the script has not run yet
Launched ==
    /\ app \in {"app", "weather_app"}
    /\ pc = "idle"
    /\ FreshLocals
    /\ csv = NoFile
    /\ last_export = NoDf
    /\ prev_page = NoPage
    /\ prev_out = NoOutcome
    /\ geo_gap = 1

Init == Launched /\ arrow_call = NoCall

\* except Exception as e: st.error(f"Error loading weather data: {str(e)}"); st.info(...)
RaiseMsg(kind, msg) ==
    /\ pc' = "error"
    /\ err' = [raised |-> TRUE, kind |-> kind, at |-> pc, msg |-> msg]
    /\ rendered' = rendered \cup {"error", "info"}

Raise(kind) == RaiseMsg(kind, "")

(***************************************************************************)
(* A run of the script, step by step.                                      *)
(***************************************************************************)
\* Streamlit reruns the script from its first line: every local starts unbound
Rerun ==
    /\ pc \in {"idle", "done", "error", "rerun"}
    /\ pc' = "geocode"
    /\ is_night' = FALSE
    /\ page' = NoPage
    /\ rows' = << >>
    /\ all_dates' = << >> /\ all_hours' = << >>
    /\ temp_values' = << >> /\ wind_values' = << >> /\ humidity_values' = << >>
    /\ combined' = << >> /\ di' = 0 /\ idx' = 0 /\ hours' = << >>
    /\ formatted' = << >>
    /\ df' = NoDf /\ df_display' = NoDf
    /\ rendered' = {}
    /\ err' = NoErr
    /\ coord' = NoCoord /\ url_coord' = NoCoord
    /\ current_weather' = NoWeather
    /\ requests' = << >>
    /\ geo_calls' = 0
    /\ geo_gap' \in {geo_gap, 1}
    /\ buttons' = {}
    /\ yest' = NoYest /\ arrows' = NoArrows
    /\ UNCHANGED << app, csv, last_export, arrow_call >>

\* a rerun no button has asked for (the location input, the first visit)
PlainRerun == Rerun /\ clicked' = NoButton /\ UNCHANGED session_state

RunScript == PlainRerun /\ UNCHANGED << prev_page, prev_out >>

\* the same step, the history of the run that ends being recorded
RunObserved ==
    /\ PlainRerun
    /\ prev_page' = IF page.fetched THEN page ELSE prev_page
    /\ prev_out' = IF page.fetched THEN [df |-> df, err |-> err] ELSE prev_out

\* lat, lon = get_coordinates(location)
Geocode(answers) ==
    /\ UNCHANGED << ui, trend >>
    /\ pc = "geocode"
    /\ \E a \in answers :
          LET r == GetCoordinates(Location, a)
          IN /\ requests' = requests \o GeocodeRequests(a, geo_gap)
             /\ geo_gap' = IF r.slept THEN 1 ELSE 0
             /\ IF r.ok
                THEN /\ coord' = r.coord
                     /\ pc' = "reverse"
                     /\ UNCHANGED << rendered, err >>
                ELSE /\ RaiseMsg(r.kind, r.msg)
                     /\ UNCHANGED coord
    /\ geo_calls' = geo_calls + 1
    /\ UNCHANGED << is_night, url_coord, current_weather >>
    /\ UNCHANGED << app, page, rows, all_dates, all_hours, temp_values, wind_values,
                    humidity_values, combined, di, idx, hours, formatted, df,
                    df_display, csv, last_export, prev_page, prev_out >>

\* city, state = get_city_state_from_coords(lat, lon): no status test, no sleep
Reverse(answers) ==
    /\ UNCHANGED << ui, trend >>
    /\ pc = "reverse"
    /\ \E a \in answers :
          /\ requests' = Append(requests, Request("reverse", a, geo_gap, coord))
          /\ IF ~a.reached THEN RaiseMsg("ConnectionError", ConnectionText)
             ELSE IF ~a.json THEN RaiseMsg("JSONDecodeError", "Expecting value")
             ELSE /\ pc' = "geocode_url"
                  /\ UNCHANGED << rendered, err >>
    /\ geo_gap' = 0
    /\ UNCHANGED << is_night, coord, url_coord, current_weather, geo_calls >>
    /\ UNCHANGED << app, page, rows, all_dates, all_hours, temp_values, wind_values,
                    humidity_values, combined, di, idx, hours, formatted, df,
                    df_display, csv, last_export, prev_page, prev_out >>

\* weather_gov_url = build_weather_gov_url_from_location(location)
GeocodeUrl(answers) ==
    /\ UNCHANGED << ui, trend >>
    /\ pc = "geocode_url"
    /\ \E a \in answers :
          LET r == GetCoordinates(Location, a)
          IN /\ requests' = requests \o GeocodeRequests(a, geo_gap)
             /\ geo_gap' = IF r.slept THEN 1 ELSE 0
             /\ IF r.ok
                THEN /\ url_coord' = r.coord
                     /\ pc' = "current"
                     /\ UNCHANGED << rendered, err >>
                ELSE /\ RaiseMsg(r.kind, r.msg)
                     /\ UNCHANGED url_coord
    /\ geo_calls' = geo_calls + 1
    /\ UNCHANGED << is_night, coord, current_weather >>
    /\ UNCHANGED << app, page, rows, all_dates, all_hours, temp_values, wind_values,
                    humidity_values, combined, di, idx, hours, formatted, df,
                    df_display, csv, last_export, prev_page, prev_out >>

\* current_weather = get_weather_data_html_weather_gov(weather_gov_url): no status test
FetchCurrent(answers) ==
    /\ UNCHANGED << ui, trend >>
    /\ pc = "current"
    /\ \E a \in answers :
          /\ requests' = Append(requests, Request("current", a, geo_gap, url_coord))
          /\ IF a.reached
             THEN /\ current_weather' = ParseCurrent(a.body)
                  /\ pc' = "theme"
                  /\ UNCHANGED << rendered, err >>
             ELSE /\ RaiseMsg("ConnectionError", ConnectionText)
                  /\ UNCHANGED current_weather
    /\ UNCHANGED << is_night, coord, url_coord, geo_calls, geo_gap >>
    /\ UNCHANGED << app, page, rows, all_dates, all_hours, temp_values, wind_values,
                    humidity_values, combined, di, idx, hours, formatted, df,
                    df_display, csv, last_export, prev_page, prev_out >>

\* is_night from the clock; get_historical_data is no name of the script, and the
\* NameError is absorbed by the inner try
Theme ==
    /\ UNCHANGED << ui, trend >>
    /\ pc = "theme"
    /\ is_night' \in BOOLEAN
    /\ pc' = "yesterday"
    /\ UNCHANGED << rendered, err, lookups >>
    /\ UNCHANGED << app, page, rows, all_dates, all_hours, temp_values, wind_values,
                    humidity_values, combined, di, idx, hours, formatted, df,
                    df_display, csv, last_export, prev_page, prev_out >>

\* the try block around get_historical_data and its except clause
Yesterday ==
    /\ UNCHANGED << ui, arrows, arrow_call, lookups >>
    /\ pc = "yesterday"
    /\ LET r == HistoricalData(HistoricalBinding)
       IN IF r.raised /\ ~CaughtByException(r.kind)
          THEN /\ Raise(r.kind)
               /\ UNCHANGED yest
          ELSE /\ yest' = YestValues(r)
               /\ pc' = "hourly"
               /\ UNCHANGED << rendered, err >>
    /\ UNCHANGED << app, is_night, page, rows, all_dates, all_hours, temp_values,
                    wind_values, humidity_values, combined, di, idx, hours, formatted, df,
                    df_display, csv, last_export, prev_page, prev_out >>

\* hourly_df = get_hourly_forecast_weather_gov(lat, lon): no status test
FetchHourly(answers) ==
    /\ UNCHANGED << ui, trend >>
    /\ pc = "hourly"
    /\ \E a \in answers :
          /\ requests' = Append(requests, Request("hourly", a, geo_gap, coord))
          /\ IF ~a.reached THEN RaiseMsg("ConnectionError", ConnectionText)
             ELSE IF ~a.numbers THEN RaiseMsg("ValueError", "invalid literal for int()")
             ELSE /\ pc' = "fetch"
                  /\ UNCHANGED << rendered, err >>
    /\ UNCHANGED << is_night, coord, url_coord, current_weather, geo_calls, geo_gap >>
    /\ UNCHANGED << app, page, rows, all_dates, all_hours, temp_values, wind_values,
                    humidity_values, combined, di, idx, hours, formatted, df,
                    df_display, csv, last_export, prev_page, prev_out >>

\* resp = requests.get(url, headers=headers); soup = BeautifulSoup(resp.content, ...):
\* no status test
FetchDigital(answers) ==
    /\ UNCHANGED << ui, trend >>
    /\ pc = "fetch"
    /\ \E a \in answers :
          /\ page' = [fetched |-> TRUE, status |-> a.status, tables |-> a.tables]
          /\ requests' = Append(requests, Request("digital", a, geo_gap, coord))
    /\ pc' = "select"
    /\ UNCHANGED << app, is_night, rows, all_dates, all_hours, temp_values, wind_values,
                    humidity_values, combined, di, idx, hours, formatted, df,
                    df_display, rendered, err, csv, last_export, prev_page, prev_out >>
    /\ UNCHANGED << coord, url_coord, current_weather, geo_calls, geo_gap >>

\* requests.get raises (no connection)
FetchFail ==
    /\ UNCHANGED << ui, trend >>
    /\ pc = "fetch"
    /\ requests' = Append(requests, Request("digital", Down, geo_gap, coord))
    /\ RaiseMsg("ConnectionError", ConnectionText)
    /\ UNCHANGED << app, is_night, page, rows, all_dates, all_hours, temp_values,
                    wind_values, humidity_values, combined, di, idx, hours, formatted,
                    df, df_display, csv, last_export, prev_page, prev_out >>
    /\ UNCHANGED << coord, url_coord, current_weather, geo_calls, geo_gap >>

\* a slip of the index: the sixth table
TableIndexSixth == 4 + 1

\* the positional index of soup.find_all("table")[4]
TableIndex == 4

\* soup.find_all("table")[4] is defined
HasTable(tables) == Len(tables) > TableIndex

\* soup.find_all("table")[4].find_all("tr")
TableRows(tables) == tables[TableIndex + 1]

SelectTable ==
    /\ UNCHANGED << ui, trend >>
    /\ UNCHANGED lookups
    /\ pc = "select"
    /\ IF HasTable(page.tables)
       THEN /\ rows' = TableRows(page.tables)
            /\ pc' = "walk"
            /\ UNCHANGED << rendered, err >>
       ELSE /\ Raise("IndexError")
            /\ UNCHANGED rows
    /\ UNCHANGED << app, is_night, page, all_dates, all_hours, temp_values, wind_values,
                    humidity_values, combined, di, idx, hours, formatted, df,
                    df_display, csv, last_export, prev_page, prev_out >>

WalkRows ==
    /\ UNCHANGED << ui, trend >>
    /\ UNCHANGED lookups
    /\ pc = "walk"
    /\ LET acc == WalkFrom([ dates |-> FreshList(all_dates),
                             hours |-> FreshList(all_hours),
                             temps |-> FreshList(temp_values),
                             winds |-> FreshList(wind_values),
                             hums  |-> FreshList(humidity_values) ], rows, 1)
       IN /\ all_dates' = acc.dates
          /\ all_hours' = acc.hours
          /\ temp_values' = acc.temps
          /\ wind_values' = acc.winds
          /\ humidity_values' = acc.hums
    /\ pc' = "combine"
    /\ UNCHANGED << app, is_night, page, rows, combined, di, idx, hours, formatted, df,
                    df_display, rendered, err, csv, last_export, prev_page, prev_out >>

(***************************************************************************)
(* Reassembly of the [date, hour] pairs (app.py 263-275,                   *)
(* weather_app.py 597-608).                                                *)
(***************************************************************************)
\* hours_per_block = len(all_hours) // len(all_dates)
HoursPerBlock(dates, hrs) == Len(hrs) \div Len(dates)

\* if date == all_dates[-1]
TakesRest(dates, k) == dates[k] = dates[Len(dates)]

\* all_hours[a:b] with Python's clamping of the slice bounds
Slice(s, a, b) ==
    LET hi == IF b > Len(s) THEN Len(s) ELSE b
    IN IF a >= hi THEN << >> ELSE SubSeq(s, a + 1, hi)

\* every date given a block of the same length, the last one as well
BlockOfFixed(dates, hrs, k, cursor) ==
    Slice(hrs, cursor, cursor + HoursPerBlock(dates, hrs))

\* the `hours` of the iteration for the k-th date, the cursor standing at `cursor`
BlockOf(dates, hrs, k, cursor) ==
    IF TakesRest(dates, k) THEN Slice(hrs, cursor, Len(hrs))
    ELSE Slice(hrs, cursor, cursor + HoursPerBlock(dates, hrs))

\* if len(all_dates) > 0 and len(all_hours) > 0
LoopRuns == Len(all_dates) > 0 /\ Len(all_hours) > 0

\* one iteration of `for date in all_dates`
CombineIter ==
    /\ UNCHANGED << ui, trend >>
    /\ UNCHANGED lookups
    /\ pc = "combine"
    /\ LoopRuns
    /\ di < Len(all_dates)
    /\ LET date == all_dates[di + 1]
           blk  == BlockOf(all_dates, all_hours, di + 1, idx)
       IN /\ hours' = blk
          /\ combined' = combined \o [k \in 1..Len(blk) |-> <<date, blk[k]>>]
          /\ idx' = idx + Len(blk)
    /\ di' = di + 1
    /\ UNCHANGED << app, pc, is_night, page, rows, all_dates, all_hours, temp_values,
                    wind_values, humidity_values, formatted, df, df_display, rendered,
                    err, csv, last_export, prev_page, prev_out >>

\* the loop is over, or the guard skipped it
CombineExit ==
    /\ UNCHANGED << ui, trend >>
    /\ UNCHANGED lookups
    /\ pc = "combine"
    /\ ~LoopRuns \/ di = Len(all_dates)
    /\ pc' = "format"
    /\ UNCHANGED << app, is_night, page, rows, all_dates, all_hours, temp_values,
                    wind_values, humidity_values, combined, di, idx, hours, formatted,
                    df, df_display, rendered, err, csv, last_export, prev_page,
                    prev_out >>

(***************************************************************************)
(* Formatting of the display dates (app.py 277-286, weather_app.py         *)
(* 610-619).                                                               *)
(***************************************************************************)
\* what the name `datetime` is bound to by the imports of the entry point
DatetimeBinding(a) == "module"

\* the attributes of the module datetime, and those of the class datetime.datetime
DatetimeAttrs(binding) ==
    IF binding = "module"
    THEN {"date", "datetime", "time", "timedelta", "timezone", "tzinfo", "MINYEAR", "MAXYEAR"}
    ELSE {"strptime", "strftime", "now", "today", "fromisoformat", "combine"}

\* the try block: datetime.strptime(date, "%m/%d") and dt.strftime("%B %-d");
\* ok = FALSE when it raises (AttributeError or ValueError)
TryMonthDay(a, date) ==
    IF "strptime" \notin DatetimeAttrs(DatetimeBinding(a))
    THEN [ok |-> FALSE, text |-> ""]
    ELSE LET dt == Strptime(date)
         IN IF dt.ok THEN [ok |-> TRUE, text |-> Strftime(dt)]
            ELSE [ok |-> FALSE, text |-> ""]

\* a slip of the except branch: the label is dropped
DateStrNoFallback(a, date) ==
    LET r == TryMonthDay(a, date) IN IF r.ok THEN r.text ELSE ""

\* except Exception: date_str = date
DateStr(a, date) ==
    LET r == TryMonthDay(a, date) IN IF r.ok THEN r.text ELSE date

\* hour_str = f"{int(hour):02d}:00"
HourStr(hour) == Pad2(IntVal(hour)) \o ":00"

\* f"{date_str}, {hour_str}"
DisplayDate(a, pair) == DateStr(a, pair[1]) \o ", " \o HourStr(pair[2])

\* a loop that degrades: a pair whose hour is no integer is left out
FormatLoopSkipping(a, pairs) ==
    [raised |-> FALSE,
     formatted |-> LET good == SelectSeq(pairs, LAMBDA pr : IntOk(pr[2]))
                   IN [k \in 1..Len(good) |-> DisplayDate(a, good[k])]]

\* the loop `for date, hour in combined`; int(hour) is outside the try block, so
\* the loop ends at the first hour that is no integer, the display dates of the
\* pairs before it appended
FormatLoop(a, pairs) ==
    LET bad == { k \in 1..Len(pairs) : ~IntOk(pairs[k][2]) }
        n   == IF bad = { } THEN Len(pairs)
               ELSE (CHOOSE k \in bad : \A j \in bad : k <= j) - 1
    IN [raised |-> bad # { },
        formatted |-> [k \in 1..n |-> DisplayDate(a, pairs[k])]]

FormatAll ==
    /\ UNCHANGED << ui, trend >>
    /\ UNCHANGED lookups
    /\ pc = "format"
    /\ LET r == FormatLoop(app, combined)
       IN /\ formatted' = r.formatted
          /\ IF r.raised
             THEN Raise("ValueError")
             ELSE /\ pc' = IF app = "app" THEN "build_df" ELSE "render_head"
                  /\ UNCHANGED << rendered, err >>
    /\ UNCHANGED << app, is_night, page, rows, all_dates, all_hours, temp_values,
                    wind_values, humidity_values, combined, di, idx, hours, df,
                    df_display, csv, last_export, prev_page, prev_out >>

(***************************************************************************)
(* The record table (app.py 289-294, weather_app.py 713-718).              *)
(***************************************************************************)
StrVal(s) == [kind |-> "str", s |-> s, v |-> 0]
NumVal(n) == [kind |-> "num", s |-> "", v |-> n]
NanVal    == [kind |-> "nan", s |-> "", v |-> 0]

\* s.replace(sub, ""), for a sub that cannot overlap itself
RECURSIVE Remove(_, _)
Remove(s, sub) ==
    IF Len(s) < Len(sub) \/ Len(sub) = 0 THEN s
    ELSE IF SubSeq(s, 1, Len(sub)) = sub THEN Remove(SubSeq(s, Len(sub) + 1, Len(s)), sub)
    ELSE Char(s, 1) \o Remove(SubSeq(s, 2, Len(s)), sub)

\* pd.to_numeric(..., errors='coerce') of one text (integer texts are served)
ToNumeric(s) == IF IntOk(s) THEN NumVal(IntVal(s)) ELSE NanVal

\* the three value columns handed to pd.DataFrame by the entry point
ValueColumn(a, vals, unit) ==
    IF a = "app" THEN [k \in 1..Len(vals) |-> StrVal(vals[k])]
    ELSE [k \in 1..Len(vals) |-> ToNumeric(Strip(Remove(vals[k], unit)))]

\* a record table built by zipping: the columns are cut to the shortest
Shortest(dates, t, w, u) ==
    CHOOSE n \in {Len(dates), Len(t), Len(w), Len(u)} :
        \A m \in {Len(dates), Len(t), Len(w), Len(u)} : n <= m

DataFrameTruncating(dates, t, w, u) ==
    [built |-> TRUE,
     rows |-> [k \in 1..Shortest(dates, t, w, u) |->
                 [Date |-> dates[k], Temp |-> t[k], Wind |-> w[k], Hum |-> u[k]]]]

\* a record table that keeps the records of the last exported run in front
DataFrameAccumulating(dates, t, w, u) ==
    IF Len(t) = Len(dates) /\ Len(w) = Len(dates) /\ Len(u) = Len(dates)
    THEN [built |-> TRUE,
          rows |-> last_export.rows \o
                   [k \in 1..Len(dates) |->
                      [Date |-> dates[k], Temp |-> t[k], Wind |-> w[k], Hum |-> u[k]]]]
    ELSE NoDf

\* pd.DataFrame({...}): columns of unequal length raise ValueError
DataFrame(dates, t, w, u) ==
    IF Len(t) = Len(dates) /\ Len(w) = Len(dates) /\ Len(u) = Len(dates)
    THEN [built |-> TRUE,
          rows |-> [k \in 1..Len(dates) |->
                      [Date |-> dates[k], Temp |-> t[k], Wind |-> w[k], Hum |-> u[k]]]]
    ELSE NoDf

BuildDf ==
    /\ UNCHANGED << ui, trend >>
    /\ UNCHANGED lookups
    /\ pc = "build_df"
    /\ LET new == DataFrame(formatted, ValueColumn(app, temp_values, "degF"),
                            ValueColumn(app, wind_values, "mph"),
                            ValueColumn(app, humidity_values, "%"))
       IN IF new.built
          THEN /\ df' = new
               /\ pc' = IF app = "app" THEN "save_csv" ELSE "render_table"
               /\ UNCHANGED << rendered, err >>
          ELSE /\ Raise("ValueError")
               /\ UNCHANGED df
    /\ UNCHANGED << app, is_night, page, rows, all_dates, all_hours, temp_values,
                    wind_values, humidity_values, combined, di, idx, hours, formatted,
                    df_display, csv, last_export, prev_page, prev_out >>

(***************************************************************************)
(* CSV export (app.py 296-302, weather_scraper.py 321-333).                *)
(***************************************************************************)
\* the text pandas writes for a cell
CellText(val) ==
    IF val.kind = "str" THEN val.s
    ELSE IF val.kind = "num" THEN ToString(val.v)
    ELSE ""

\* [d.split(',')[1].strip() if ',' in d else '' for d in df['Date'].tolist()]
HourOfDate(d) == IF Contains(d, ",") THEN Strip(Split(d, ",")[2]) ELSE ""

\* the loop of save_forecast_to_csv: one dict per date, '' past the end of a list
ExportRows(dates, hrs, t, w, u) ==
    [k \in 1..Len(dates) |->
        << dates[k],
           IF k <= Len(hrs) THEN hrs[k] ELSE "",
           IF k <= Len(t) THEN CellText(t[k]) ELSE "",
           IF k <= Len(w) THEN CellText(w[k]) ELSE "",
           IF k <= Len(u) THEN CellText(u[k]) ELSE "" >>]

CsvHeader ==
    <<"Date", "Hour", "Temperature (F)", "Surface Wind Speed (mph)", "Relative Humidity (%)">>

\* doubling of the quote character inside a quoted field
RECURSIVE DoubleQuotes(_)
DoubleQuotes(s) ==
    IF Len(s) = 0 THEN ""
    ELSE (IF Char(s, 1) = "\"" THEN "\"\"" ELSE Char(s, 1)) \o DoubleQuotes(SubSeq(s, 2, Len(s)))

\* csv.QUOTE_MINIMAL: a field holding the delimiter or the quote character is quoted
CsvField(s) ==
    IF Contains(s, ",") \/ Contains(s, "\"") THEN "\"" \o DoubleQuotes(s) \o "\"" ELSE s

RECURSIVE CsvLine(_)
CsvLine(fields) ==
    IF Len(fields) = 0 THEN ""
    ELSE IF Len(fields) = 1 THEN CsvField(fields[1])
    ELSE CsvField(fields[1]) \o "," \o CsvLine(Tail(fields))

\* pd.DataFrame(data).to_csv(filename, index=False): the lines of the new file;
\* a frame built from no dict has no column, and its header line is empty
ToCsv(recs) ==
    IF Len(recs) = 0 THEN <<"">>
    ELSE <<CsvLine(CsvHeader)>> \o [k \in 1..Len(recs) |-> CsvLine(recs[k])]

\* a file opened for appending
WriteFileAppend(old, lines) == [exists |-> TRUE, lines |-> old.lines \o lines]

\* to_csv opens the file for writing: the old lines are gone
WriteFile(old, lines) == [exists |-> TRUE, lines |-> lines]

Column(d, f) == [k \in 1..Len(d.rows) |-> d.rows[k][f]]

SaveCsv ==
    /\ UNCHANGED << ui, trend >>
    /\ UNCHANGED lookups
    /\ pc = "save_csv"
    /\ LET dates == Column(df, "Date")
           hrs   == [k \in 1..Len(dates) |-> HourOfDate(dates[k])]
       IN csv' = WriteFile(csv, ToCsv(ExportRows(dates, hrs, Column(df, "Temp"),
                                                  Column(df, "Wind"), Column(df, "Hum"))))
    /\ last_export' = df
    /\ pc' = "render_head"
    /\ UNCHANGED << app, locals, prev_page, prev_out >>

(***************************************************************************)
(* Rendering (app.py 304-566, weather_app.py 621-1110).                    *)
(***************************************************************************)
\* title, current-weather header, metric cards, hourly chart, forecast heading
RenderHead ==
    /\ UNCHANGED << ui, yest, arrow_call >>
    /\ UNCHANGED lookups
    /\ pc = "render_head"
    /\ rendered' = rendered \cup {"title", "current", "cards", "heading"}
    /\ arrows' = [bound |-> TRUE,
                  temp |-> Arrow(StrVal(current_weather.temperature), yest.temp).text,
                  hum  |-> Arrow(StrVal(current_weather.humidity), yest.hum).text,
                  wind |-> Arrow(StrVal(current_weather.wind_speed), yest.wind).text]
    /\ pc' = IF app = "app" THEN "render_table" ELSE "build_df"
    /\ UNCHANGED << app, is_night, page, rows, all_dates, all_hours, temp_values,
                    wind_values, humidity_values, combined, di, idx, hours, formatted,
                    df, df_display, err, csv, last_export, prev_page, prev_out >>

\* a window one row longer
DisplayWindowWide == 10 + 1

\* the display window of df.head(10)
DisplayWindow == 10

\* astype(str) of a cell; a numeric column holding NaN is a float column
AsStr(val, floats) ==
    IF val.kind = "str" THEN val.s
    ELSE IF val.kind = "nan" THEN "nan"
    ELSE IF floats THEN ToString(val.v) \o ".0"
    ELSE ToString(val.v)

HasNan(d, f) == \E k \in 1..Len(d.rows) : d.rows[k][f].kind = "nan"

\* df.head(10).copy() with the unit suffixes appended; head keeps the dtype
\* of the whole column
Display(d) ==
    LET n == IF Len(d.rows) < DisplayWindow THEN Len(d.rows) ELSE DisplayWindow
    IN [built |-> TRUE,
        rows |-> [k \in 1..n |->
            [Date |-> d.rows[k].Date,
             Temp |-> AsStr(d.rows[k].Temp, HasNan(d, "Temp")) \o "degF",
             Wind |-> AsStr(d.rows[k].Wind, HasNan(d, "Wind")) \o " mph",
             Hum  |-> AsStr(d.rows[k].Hum, HasNan(d, "Hum")) \o "%"]]]

\* the forecast table, the view section and the footer
RenderTable ==
    /\ UNCHANGED lookups
    /\ pc = "render_table"
    /\ df_display' = Display(df)
    /\ LET v == ViewSection(app, session_state, clicked)
       IN /\ session_state' = v.session
          /\ buttons' = v.buttons
          /\ rendered' = rendered \cup (IF v.rerun THEN {"table"} ELSE {"table", "footer"})
          /\ pc' = IF v.rerun THEN "rerun" ELSE "done"
    /\ UNCHANGED << clicked, trend >>
    /\ UNCHANGED << app, is_night, page, rows, all_dates, all_hours, temp_values,
                    wind_values, humidity_values, combined, di, idx, hours, formatted,
                    df, err, csv, last_export, prev_page, prev_out >>

\* the user clicks a button on the screen: its callback runs, then the script
ClickButton ==
    /\ \E b \in buttons :
          /\ clicked' = b
          /\ session_state' = OnClick(app, b, session_state)
    /\ Rerun
    /\ UNCHANGED << prev_page, prev_out >>

Next ==
    \/ RunScript \/ Geocode(GeoAnswersPlain) \/ Reverse(ReverseAnswersPlain)
    \/ GeocodeUrl(GeoAnswersPlain) \/ FetchCurrent(CurrentAnswersPlain) \/ Theme \/ Yesterday
    \/ FetchHourly(HourlyAnswersPlain) \/ FetchDigital(DigitalAnswers) \/ FetchFail
    \/ SelectTable \/ WalkRows \/ CombineIter \/ CombineExit \/ FormatAll
    \/ BuildDf \/ SaveCsv \/ RenderHead \/ RenderTable

\* the fetch cycles of either entry point
Spec == Init /\ [][Next]_vars

\* the fetch cycles, with the history of the previous run
NextRepeat ==
    \/ RunObserved \/ Geocode(GeoAnswersFound) \/ Reverse(ReverseAnswersPlain)
    \/ GeocodeUrl(GeoAnswersFound) \/ FetchCurrent(CurrentAnswersPlain) \/ Theme \/ Yesterday
    \/ FetchHourly(HourlyAnswersPlain) \/ FetchDigital(PageAnswers) \/ FetchFail
    \/ SelectTable \/ WalkRows \/ CombineIter \/ CombineExit \/ FormatAll
    \/ BuildDf \/ SaveCsv \/ RenderHead \/ RenderTable

SpecRepeat == Init /\ [][NextRepeat]_vars

\* the coordinate and the requests of a run whose lookups all succeeded
PlainCoord == [bound |-> TRUE, lat |-> SaltLake.lat, lon |-> SaltLake.lon]

PlainRequests(p) ==
    << Request("geocode", Reply(200, TRUE, <<SaltLake>>), 1, NoCoord),
       Request("reverse", Reply(200, TRUE, << >>), 1, PlainCoord),
       Request("geocode", Reply(200, TRUE, <<SaltLake>>), 0, NoCoord),
       Request("current", PageReply(200, PlainBody), 1, PlainCoord),
       Request("hourly", [reached |-> TRUE, status |-> 200], 1, PlainCoord),
       Request("digital", TablesReply(200, p), 1, PlainCoord) >>

\* a run that has just been served the page p
Served(p) ==
    /\ pc = "select"
    /\ is_night \in BOOLEAN
    /\ page = [fetched |-> TRUE, status |-> 200, tables |-> p]
    /\ rows = << >>
    /\ all_dates = << >> /\ all_hours = << >>
    /\ temp_values = << >> /\ wind_values = << >> /\ humidity_values = << >>
    /\ combined = << >> /\ di = 0 /\ idx = 0 /\ hours = << >>
    /\ formatted = << >>
    /\ df = NoDf /\ df_display = NoDf
    /\ rendered = {}
    /\ err = NoErr
    /\ csv = NoFile
    /\ last_export = NoDf
    /\ prev_page = NoPage
    /\ prev_out = NoOutcome
    /\ coord = PlainCoord /\ url_coord = PlainCoord
    /\ current_weather = ParseCurrent(PlainBody)
    /\ requests = PlainRequests(p)
    /\ geo_calls = 2
    /\ geo_gap = 1
    /\ session_state = NoSession /\ clicked = NoButton /\ buttons = {}
    /\ yest = YestValues(HistoricalData(HistoricalBinding)) /\ arrows = NoArrows
    /\ arrow_call = NoCall

\* the lookups of a run over all answers of the services; the digital page served
\* has no table
LookupPages == { TablesReply(200, LayoutPage(0)), TablesReply(500, LayoutPage(0)) }

NextLookups ==
    \/ RunScript \/ Geocode(GeoAnswers) \/ Reverse(ReverseAnswers)
    \/ GeocodeUrl(GeoAnswers) \/ FetchCurrent(CurrentAnswers) \/ Theme \/ Yesterday
    \/ FetchHourly(HourlyAnswers) \/ FetchDigital(LookupPages) \/ FetchFail
    \/ SelectTable

SpecLookups == Init /\ [][NextLookups]_vars

\* reassembly and formatting over all label lists within the bounds
InitReassembly == app \in {"app", "weather_app"} /\ \E p \in ReassemblyPages : Served(p)

NextReassembly == SelectTable \/ WalkRows \/ CombineIter \/ CombineExit \/ FormatAll

SpecReassembly == InitReassembly /\ [][NextReassembly]_vars

\* the export of app.py over record tables with arbitrary texts
InitExport == app = "app" /\ \E p \in ExportPages : Served(p)

NextExport ==
    \/ SelectTable \/ WalkRows \/ CombineIter \/ CombineExit \/ FormatAll
    \/ BuildDf \/ SaveCsv

SpecExport == InitExport /\ [][NextExport]_vars

\* the display table over record tables shorter and longer than the window
InitDisplay == app \in {"app", "weather_app"} /\ \E p \in DisplayPages : Served(p)

NextDisplay ==
    \/ SelectTable \/ WalkRows \/ CombineIter \/ CombineExit \/ FormatAll
    \/ BuildDf \/ SaveCsv \/ RenderHead \/ RenderTable

SpecDisplay == InitDisplay /\ [][NextDisplay]_vars

\* the row walk over tables with repeated and unrecognised rows
InitWalk == app \in {"app", "weather_app"} /\ \E p \in WalkPages : Served(p)

NextWalk == SelectTable \/ WalkRows

SpecWalk == InitWalk /\ [][NextWalk]_vars

\* the pages of the view inputs: one forecast page and a page without tables
ViewPages ==
    { TablesReply(200, ForecastPage(ForecastTable(<<DateToken(1)>>, <<"22">>, <<"51">>,
                                                  <<"1">>, <<"41">>))),
      TablesReply(200, LayoutPage(0)) }

\* the runs of a session whose user clicks the buttons on the screen
NextViews ==
    \/ RunScript \/ ClickButton \/ Geocode(GeoAnswersFound) \/ Reverse(ReverseAnswersPlain)
    \/ GeocodeUrl(GeoAnswersFound) \/ FetchCurrent(CurrentAnswersPlain) \/ Theme \/ Yesterday
    \/ FetchHourly(HourlyAnswersPlain) \/ FetchDigital(ViewPages)
    \/ SelectTable \/ WalkRows \/ CombineIter \/ CombineExit \/ FormatAll
    \/ BuildDf \/ SaveCsv \/ RenderHead \/ RenderTable

SpecViews == Init /\ [][NextViews]_vars

\* arrow applied to every pair of its argument values
InitArrow ==
    /\ Launched
    /\ \E v \in ArrowValues, y \in ArrowValues :
          arrow_call = [called |-> TRUE, returned |-> FALSE, val |-> v, yest |-> y,
                        out |-> [raised |-> FALSE, text |-> ""]]

ArrowReturns ==
    /\ arrow_call.called /\ ~arrow_call.returned
    /\ arrow_call' = [arrow_call EXCEPT !.returned = TRUE,
                                        !.out = Arrow(arrow_call.val, arrow_call.yest)]
    /\ UNCHANGED << app, pc, locals, lookups, ui, yest, arrows, csv, last_export,
                    prev_page, prev_out >>

SpecArrow == InitArrow /\ [][ArrowReturns]_vars

\* the formatting loop and what follows it, over hour labels that are no integers
InitFormat == app \in {"app", "weather_app"} /\ \E p \in FormatPages : Served(p)

NextFormat ==
    \/ SelectTable \/ WalkRows \/ CombineIter \/ CombineExit \/ FormatAll
    \/ BuildDf \/ SaveCsv \/ RenderHead \/ RenderTable

SpecFormat == InitFormat /\ [][NextFormat]_vars

(***************************************************************************)
(* Reading the CSV file back: a reader of comma-separated lines with       *)
(* double-quoted fields.                                                   *)
(***************************************************************************)
RECURSIVE CsvScan(_, _, _, _)
CsvScan(s, k, cur, quoted) ==
    IF k > Len(s) THEN <<cur>>
    ELSE IF quoted
         THEN IF Char(s, k) = "\""
              THEN IF k < Len(s) /\ Char(s, k + 1) = "\""
                   THEN CsvScan(s, k + 2, cur \o "\"", TRUE)
                   ELSE CsvScan(s, k + 1, cur, FALSE)
              ELSE CsvScan(s, k + 1, cur \o Char(s, k), TRUE)
         ELSE IF Char(s, k) = "," THEN <<cur>> \o CsvScan(s, k + 1, "", FALSE)
              ELSE IF Char(s, k) = "\"" /\ cur = "" THEN CsvScan(s, k + 1, cur, TRUE)
              ELSE CsvScan(s, k + 1, cur \o Char(s, k), FALSE)

\* the data rows of a file: every line after the header line
ReadBack(file) == [k \in 1..(Len(file.lines) - 1) |-> CsvScan(file.lines[k + 1], 1, "", FALSE)]

(***************************************************************************)
(* Stages of a run.                                                        *)
(***************************************************************************)
D == Len(all_dates)
H == Len(all_hours)

\* the row walk of this run is over
Walked ==
    \/ pc \in {"combine", "format", "build_df", "save_csv", "render_head", "render_table", "done"}
    \/ pc = "error" /\ err.at \in {"format", "build_df"}

\* the reassembly loop of this run is over
Paired == Walked /\ pc # "combine"

\* the formatting loop of this run ended without raising
Formatted == Paired /\ pc # "format" /\ ~(pc = "error" /\ err.at = "format")

\* the export step of this run is over
Exported == app = "app" /\ pc \in {"render_head", "render_table", "done"}

(***************************************************************************)
(* C1..C10.                                                                *)
(***************************************************************************)
\* C1: with D >= 1 dates and H >= 1 hours, H % D = 0, the reassembly loop makes D
\* blocks of exactly H / D pairs each, H pairs in all.
C1_DivisibleBlocks ==
    (Walked /\ D >= 1 /\ H >= 1 /\ H % D = 0) =>
        /\ (pc = "combine" /\ di >= 1) => Len(hours) = H \div D
        /\ Paired => (di = D /\ Len(hours) = H \div D /\ Len(combined) = H)

\* C2: with H % D # 0 the block of the last date has H - block*(D-1) hours and the
\* block of every other date has H // D hours.
C2_RemainderBlocks ==
    (Walked /\ D >= 1 /\ H >= 1 /\ H % D # 0 /\ di >= 1) =>
        Len(hours) = IF di = D THEN H - (H \div D) * (D - 1) ELSE H \div D

\* C3, as stated: with no date or no hour the run yields an empty record table and
\* does not end in an error, whatever the value lists hold.
C3_EmptyNeverFails ==
    (Walked /\ (D = 0 \/ H = 0)) =>
        /\ pc # "error"
        /\ pc = "done" => (df.built /\ df.rows = << >>)

\* C3, amended: with no date or no hour the pairing and the display dates are empty
\* and neither loop raises; the record table is empty and the run ends without
\* error exactly when the three value lists are empty as well, and otherwise
\* building the record table raises ValueError.
C3_EmptyPairing ==
    (Walked /\ (D = 0 \/ H = 0)) =>
        LET novalues == temp_values = << >> /\ wind_values = << >> /\ humidity_values = << >>
        IN /\ combined = << >> /\ formatted = << >>
           /\ pc = "error" => (err.at = "build_df" /\ err.kind = "ValueError" /\ ~novalues)
           /\ df.built => (df.rows = << >> /\ novalues)
           /\ pc = "done" => df.built

C3_Witness ==
    /\ pc = "done" /\ D >= 1 /\ H = 0
    /\ df.built /\ df.rows = << >>

\* the pairs and the three value lists do not all have the same length
Mismatch ==
    \/ Len(temp_values) # Len(combined)
    \/ Len(wind_values) # Len(combined)
    \/ Len(humidity_values) # Len(combined)

\* C4: when the number of pairs differs from the length of a value list, building
\* the records raises; the run has no record table and no display table, never
\* reaches the export or the forecast table, and no step of it writes the file.
C4_MismatchState ==
    (Paired /\ Mismatch) =>
        /\ df = NoDf /\ df_display = NoDf
        /\ pc \in {"format", "build_df", "render_head", "error"}
        /\ "table" \notin rendered
        /\ pc = "error" => (err.kind = "ValueError" /\ err.at = "build_df")

C4_MismatchRaises ==
    /\ [] C4_MismatchState
    /\ [][(Paired /\ Mismatch) => csv' = csv]_vars

C4_Witness ==
    /\ pc = "error" /\ err.at = "build_df"
    /\ Len(combined) = 2 /\ Len(temp_values) = 3 /\ csv.exists

\* C5: a pair with a valid month/day label and an integer hour is shown as
\* "<Month name> <day>, HH:00"; dates 5/10, 5/11 with hours 22, 23, 0, 1, 2 give
\* May 10, 22:00 .. May 11, 02:00.
C5_MonthNameForm ==
    Formatted =>
        /\ Len(formatted) = Len(combined)
        /\ \A k \in 1..Len(combined) :
              Strptime(combined[k][1]).ok =>
                  formatted[k] = MonthNames[Strptime(combined[k][1]).month] \o " "
                                   \o ToString(Strptime(combined[k][1]).day) \o ", "
                                   \o Pad2(IntVal(combined[k][2])) \o ":00"
        /\ (all_dates = <<"5/10", "5/11">> /\ all_hours = <<"22", "23", "0", "1", "2">>) =>
              formatted = << "May 10, 22:00", "May 10, 23:00", "May 11, 00:00",
                             "May 11, 01:00", "May 11, 02:00" >>

Selected == Walked \/ pc = "walk" \/ (pc = "error" /\ err.at \notin {"geocode", "reverse", "geocode_url", "current", "hourly", "fetch", "select"})

\* C7, as stated: the parser walks the rows of the sixth table (index 5).
C7_SixthTable ==
    Selected => (Len(page.tables) >= 6 /\ rows = page.tables[6])

\* C7, amended: the parser walks the rows of the fifth table (0-based index 4) and
\* of no other table; a page with fewer than five tables ends the run with an
\* IndexError and nothing is walked.
C7_FifthTable ==
    /\ Selected =>
          /\ Len(page.tables) >= 5 /\ rows = page.tables[5]
          /\ Walked => \A k \in 1..Len(page.tables) :
                          (k # 5 /\ page.tables[k] # page.tables[5]) =>
                              \A j \in 1..Len(all_dates) :
                                  all_dates[j] \notin { Strip(c) : c \in { page.tables[k][1][2] } }
    /\ (page.fetched /\ Len(page.tables) < 5 /\ pc # "select") =>
          (pc = "error" /\ err.kind = "IndexError" /\ rows = << >> /\ all_dates = << >>)

C7_Witness ==
    /\ pc = "done" /\ Len(page.tables) >= 6
    /\ rows = page.tables[5] /\ rows # page.tables[6]
    /\ Len(combined) > 0

C9_RoundTrip ==
    Exported =>
        LET back == ReadBack(csv)
        IN /\ Len(back) = Len(df.rows)
           /\ \A k \in 1..Len(back) :
                 /\ Len(back[k]) = 5
                 /\ back[k][1] = df.rows[k].Date
                 /\ back[k][2] \in { combined[k][2], HourStr(combined[k][2]) }
                 /\ back[k][3] = temp_values[k]
                 /\ back[k][4] = wind_values[k]
                 /\ back[k][5] = humidity_values[k]

\* C10: the file holds exactly the rows of the last run that reached the export
\* step (none of an earlier run); a run that fails leaves it as it was.
C10_FileIsLastExport ==
    /\ csv.exists = last_export.built
    /\ Exported => last_export = df
    /\ csv.exists =>
          LET back == ReadBack(csv)
          IN /\ Len(back) = Len(last_export.rows)
             /\ \A k \in 1..Len(back) :
                   /\ back[k][1] = last_export.rows[k].Date
                   /\ back[k][2] = HourOfDate(last_export.rows[k].Date)
                   /\ back[k][3] = CellText(last_export.rows[k].Temp)
                   /\ back[k][4] = CellText(last_export.rows[k].Wind)
                   /\ back[k][5] = CellText(last_export.rows[k].Hum)

C10_Witness ==
    /\ pc = "error" /\ err.at = "build_df"
    /\ csv.exists /\ Len(last_export.rows) = 2
    /\ Len(ReadBack(csv)) = 2
(***************************************************************************)
(* C11..C20.                                                               *)
(***************************************************************************)
\* the last request this run has sent
LastRequest == requests[Len(requests)]

\* the answer a is a failure of the geocoding service: not reached, or a failure status
ServiceFailure(a) == ~a.reached \/ a.status # 200

\* a call of get_coordinates of this run has just failed on an empty candidate list
NotFoundRun ==
    /\ pc = "error" /\ err.at \in {"geocode", "geocode_url"}
    /\ LastRequest.reached /\ LastRequest.status = 200 /\ LastRequest.cands = << >>

GeoRequests == SelectSeq(requests, LAMBDA r : r.svc = "geocode")

\* the coordinate of the first candidate of a search answer
FirstCandidate(r) == [bound |-> TRUE, lat |-> r.cands[1].lat, lon |-> r.cands[1].lon]

\* C12: every call of get_coordinates sends exactly one request, whatever the
\* outcome; a call that returns gives the first candidate of its answer, and a
\* failed attempt ends in the error with no further request.
C12_OneRequestPerCall ==
    /\ Len(GeoRequests) = geo_calls
    /\ coord.bound =>
          (Len(GeoRequests) >= 1 /\ Len(GeoRequests[1].cands) >= 1
             /\ coord = FirstCandidate(GeoRequests[1]))
    /\ url_coord.bound =>
          (Len(GeoRequests) >= 2 /\ Len(GeoRequests[2].cands) >= 1
             /\ url_coord = FirstCandidate(GeoRequests[2]))
    /\ (pc = "error" /\ err.at \in {"geocode", "geocode_url"}) =>
          /\ err.raised /\ LastRequest.svc = "geocode"
          /\ ServiceFailure(LastRequest) \/ LastRequest.cands = << >>
          /\ (IF err.at = "geocode" THEN coord ELSE url_coord) = NoCoord

C12_Witness ==
    /\ pc = "error" /\ err.at = "geocode_url"
    /\ LastRequest.status = 500 /\ geo_calls = 2 /\ Len(GeoRequests) = 2
    /\ coord.lat = Denver.lat /\ Len(GeoRequests[1].cands) = 2

\* the request r went to the geocoding service (search or reverse)
ToGeocoder(r) == r.svc \in {"geocode", "reverse"}

\* C13: before every request to the geocoding service but the first, the minimum
\* delay of one time unit has elapsed since the previous request to it, also when
\* that one was a reverse lookup or a failed lookup.
C13_MinimumDelay ==
    \A k \in 1..Len(requests) : ToGeocoder(requests[k]) => requests[k].gap >= 1

\* C14: within one run the location is resolved to a coordinate exactly once, and
\* the current-conditions request and the digital-forecast request name that same
\* coordinate.
C14_OneCoordinate ==
    /\ geo_calls <= 1
    /\ \A j, k \in 1..Len(requests) :
          (requests[j].svc = "current" /\ requests[k].svc = "digital") =>
              requests[j].coord = requests[k].coord

\* the current-conditions request of this run was answered
CurrentAnswered == \E k \in 1..Len(requests) : requests[k].svc = "current" /\ requests[k].reached

\* the body of that answer
CurrentBody == requests[CHOOSE k \in 1..Len(requests) : requests[k].svc = "current"].body

\* the two-cell rows of the detail table whose label holds the word
LabelRows(b, word) ==
    { k \in 1..Len(b.detail) : Len(b.detail[k]) = 2 /\ HasSub(Strip(b.detail[k][1]), word) }

\* C15: for every answered current-conditions page, a field whose marker (or
\* two-cell label row) is absent is "N/A", a field whose marker is present is the
\* marker's trimmed text, and parsing never raises; temperature text "59" without a
\* conditions marker gives temperature "59" and conditions "N/A".
C15_BestEffortFields ==
    CurrentAnswered =>
        LET b == CurrentBody
            w == current_weather
        IN /\ ~(pc = "error" /\ err.at = "current")
           /\ w.bound
           /\ w.temperature = (IF b.temp.present THEN Strip(b.temp.text) ELSE "N/A")
           /\ w.conditions = (IF b.cond.present THEN Strip(b.cond.text) ELSE "N/A")
           /\ IF LabelRows(b, "Humidity") = {} THEN w.humidity = "N/A"
              ELSE w.humidity \in { Strip(b.detail[k][2]) : k \in LabelRows(b, "Humidity") }
           /\ IF LabelRows(b, "Wind") = {} THEN w.wind_speed = "N/A"
              ELSE w.wind_speed \in { Strip(b.detail[k][2]) : k \in LabelRows(b, "Wind") }
           /\ (b.temp = Marker("59") /\ ~b.cond.present) =>
                 (w.temperature = "59" /\ w.conditions = "N/A")

C15_Witness ==
    /\ CurrentAnswered /\ pc = "theme"
    /\ CurrentBody = Body(Marker("59"), NoMarker, << <<" Humidity ", " 41% ">> >>)
    /\ current_weather.temperature = "59" /\ current_weather.conditions = "N/A"
    /\ current_weather.humidity = "41%" /\ current_weather.wind_speed = "N/A"

\* C16: when the current-conditions page or the digital-forecast page is answered
\* with a non-success status, the run fails at that fetch, and the body of the answer
\* is parsed neither into current-conditions fields nor into rows of a forecast table.
C16_NonSuccessIsError ==
    /\ \A k \in 1..Len(requests) :
          (requests[k].svc = "current" /\ requests[k].reached /\ requests[k].status # 200) =>
              (pc = "error" /\ err.at = "current" /\ ~current_weather.bound)
    /\ (page.fetched /\ page.status # 200) =>
          (pc = "error" /\ err.at = "fetch" /\ rows = << >> /\ ~df.built)

\* the lookups of a fetch cycle, in their order: geocode, current conditions,
\* digital forecast
Stage(r) == IF r.svc = "geocode" THEN 1 ELSE IF r.svc = "current" THEN 2 ELSE 3

Staged(r) == r.svc \in {"geocode", "current", "digital"}

\* the lookup r returned successfully: it was answered with the success status, and
\* a search found a candidate
Succeeded(r) ==
    /\ r.reached /\ r.status = 200
    /\ r.svc = "geocode" => Len(r.cands) > 0

\* C17: the lookups of a run are sent in the order geocode, current conditions,
\* digital forecast; a lookup is sent only after every earlier one has returned
\* successfully, so that no lookup follows a failed one.
C17_Sequential ==
    \A j, k \in 1..Len(requests) :
        (j < k /\ Staged(requests[j]) /\ Staged(requests[k])) =>
            /\ Stage(requests[j]) <= Stage(requests[k])
            /\ Succeeded(requests[j])

\* what a run shows of its forecast: the dashboard head and the forecast table
DashboardContent == {"current", "cards", "heading", "table", "footer"}

\* C18: a run that ended in an error shows the error message and the suggestion
\* to try another location, and shows neither the dashboard content nor the
\* forecast table of that run.
C18_ErrorsFatal ==
    pc = "error" =>
        /\ err.raised
        /\ {"error", "info"} \subseteq rendered
        /\ rendered \cap DashboardContent = {}
        /\ df_display = NoDf

\* the texts astype(str) may give for a cell of the record table
StrForms(val) ==
    IF val.kind = "str" THEN {val.s}
    ELSE IF val.kind = "nan" THEN {"nan"}
    ELSE {ToString(val.v), ToString(val.v) \o ".0"}

Suffixed(text, val, suffix) == \E form \in StrForms(val) : text = form \o suffix

\* disp shows the first records of d, at most ten, with the unit suffixes
WindowOf(d, disp) ==
    /\ disp.built
    /\ Len(disp.rows) = (IF Len(d.rows) < 10 THEN Len(d.rows) ELSE 10)
    /\ \A k \in 1..Len(disp.rows) :
          /\ k <= Len(d.rows)
          /\ disp.rows[k].Date = d.rows[k].Date
          /\ Suffixed(disp.rows[k].Temp, d.rows[k].Temp, "degF")
          /\ Suffixed(disp.rows[k].Wind, d.rows[k].Wind, " mph")
          /\ Suffixed(disp.rows[k].Hum, d.rows[k].Hum, "%")

\* C19: the step that builds the display table of a record table of N records
\* gives it min(N, 10) rows, the first records in their order with "degF", " mph"
\* and "%" appended to temperature, wind and humidity, and leaves the record
\* table as it was.
C19_DisplayWindow ==
    [][(pc = "render_table" /\ pc' = "done") =>
          (df' = df /\ WindowOf(df, df_display'))]_vars

C19_Witness ==
    /\ pc = "done" /\ df.built /\ df_display.built
    /\ Len(df.rows) > 10 /\ Len(df_display.rows) = 10

\* the hour components of the pairs, in emission order
PairHours == [k \in 1..Len(combined) |-> combined[k][2]]

\* the date components of pairs[k..] follow dates[i..]: each date of the list
\* stands for a (possibly empty) run of pairs, the runs in the order of the list
RECURSIVE InDateOrder(_, _, _, _)
InDateOrder(pairs, k, dates, i) ==
    IF k > Len(pairs) THEN TRUE
    ELSE IF i > Len(dates) THEN FALSE
    ELSE IF pairs[k][1] = dates[i] THEN InDateOrder(pairs, k + 1, dates, i)
    ELSE InDateOrder(pairs, k, dates, i + 1)

\* C20: with at least one date and one hour (more dates than hours included) the
\* hour components of the pairs, in emission order, are exactly the hour list,
\* and the date components appear in the order of the date list.
C20_EveryHourOnce ==
    (Paired /\ D >= 1 /\ H >= 1) =>
        /\ PairHours = all_hours
        /\ InDateOrder(combined, 1, all_dates, 1)

C20_Witness ==
    /\ Paired /\ H >= 1 /\ D > H
    /\ Len(combined) = H
    /\ \E k \in 1..(D - 1) : all_dates[k] # all_dates[D]

(***************************************************************************)
(* C21..C30.                                                               *)
(***************************************************************************)
\* C21: whatever the date labels, equal texts at several positions included, each
\* date before the last position is given exactly H // D consecutive hours and
\* only the date at the last position is given all the hours that remain.
C21_RemainderByPosition ==
    (Walked /\ D >= 1 /\ H >= 1 /\ di >= 1) =>
        IF di < D
        THEN /\ Len(hours) = H \div D
             /\ idx = di * (H \div D)
             /\ hours = Slice(all_hours, idx - Len(hours), idx)
        ELSE /\ Len(hours) = H - (D - 1) * (H \div D)
             /\ idx = H

\* the accumulator the trimmed label of a row names, "none" for any other label
Recognised(label) ==
    IF label = "Date" THEN "dates"
    ELSE IF StartsWith(label, "Hour (") THEN "hours"
    ELSE IF label = "Temperature (degF)" THEN "temps"
    ELSE IF label = "Surface Wind (mph)" THEN "winds"
    ELSE IF label = "Relative Humidity (%)" THEN "hums"
    ELSE "none"

\* the non-empty trimmed texts of the cells after the label cell, in cell order
TrailingTexts(cells) ==
    SelectSeq([k \in 1..(Len(cells) - 1) |-> Strip(cells[k + 1])], LAMBDA t : t # "")

\* what the rows rws give the accumulator f: the trailing texts of the rows
\* whose label names f, in row order
RECURSIVE Gathered(_, _)
Gathered(rws, f) ==
    IF rws = << >> THEN << >>
    ELSE LET cells == Head(rws)
         IN (IF Len(cells) > 0 /\ Recognised(Strip(cells[1])) = f
             THEN TrailingTexts(cells) ELSE << >>) \o Gathered(Tail(rws), f)

\* C22: after the walk of the selected table every accumulator holds the non-empty
\* cells after the label of the rows whose trimmed label names it, in cell order
\* and rows in row order; a row adds to the one accumulator its label names and a
\* row with any other label adds to none.
C22_RowAccumulation ==
    Walked =>
        /\ all_dates = Gathered(rows, "dates")
        /\ all_hours = Gathered(rows, "hours")
        /\ temp_values = Gathered(rows, "temps")
        /\ wind_values = Gathered(rows, "winds")
        /\ humidity_values = Gathered(rows, "hums")

C22_Witness ==
    /\ pc = "combine"
    /\ Len(rows) = 3
    /\ \A k \in 1..3 : Len(rows[k]) > 0
    /\ Recognised(Strip(rows[1][1])) = "hours" /\ Recognised(Strip(rows[3][1])) = "hours"
    /\ rows[1] # rows[3]
    /\ Recognised(Strip(rows[2][1])) = "none"
    /\ Len(all_hours) = 3 /\ all_dates = << >>

\* the Back to Dashboard buttons of the views of weather_app.py
BackButtons == {"back_btn", "back_btn_temp_humidity", "back_btn_wind"}

AllOff(s) == \A k \in ViewFlags : ~IsOn(s, k)

C25_OneViewAtMost ==
    app = "weather_app" => Cardinality({ k \in ViewFlags : IsOn(session_state, k) }) <= 1

C25_Witness ==
    /\ app = "weather_app" /\ pc = "done"
    /\ clicked = "temp_humidity_btn"
    /\ IsOn(session_state, "show_temp_humidity")
    /\ session_state["show_scatter"] = "False"
    /\ buttons = {"back_btn_temp_humidity"}

\* what the user finds after a click on the button b of the screen u, the
\* fetch cycle of the run succeeding: the flags and the buttons on the screen
AfterClick(a, u, b) ==
    LET v == ViewSection(a, OnClick(a, b, u.session), b)
        w == IF v.rerun THEN ViewSection(a, v.session, NoButton) ELSE v
    IN [session |-> w.session, buttons |-> w.buttons]

\* the screens the user can get to from the screens U
RECURSIVE Reachable(_, _)
Reachable(a, U) ==
    LET V == U \cup { AfterClick(a, u, b) : <<u, b>> \in { <<u, b>> \in U \X ({NoButton} \cup
                            UNION { u.buttons : u \in U }) : b = NoButton \/ b \in u.buttons } }
    IN IF V = U THEN U ELSE Reachable(a, V)

\* C26: in app.py, from every state of the flags the user can get to, some
\* sequence of clicks and reruns leads to a screen with the row of view buttons.
C26_DashboardReachable ==
    (app = "app" /\ pc = "done") =>
        \E u \in Reachable(app, {[session |-> session_state, buttons |-> buttons]}) :
            u.buttons = DashboardButtons(app)

\* x is present and is a number or the text of one
Numeric(x) == x.kind = "num" \/ (x.kind = "str" /\ IntOk(Strip(x.s)))

NumberOf(x) == IF x.kind = "num" THEN x.v ELSE IntVal(Strip(x.s))

\* C24: arrow(val, yest) returns the up marker exactly when both values are
\* present and numeric and val > yest, the down marker exactly when both are
\* present and numeric and val < yest, the empty string in every other case, and
\* never raises.
C24_TrendIndicator ==
    arrow_call.returned =>
        LET v == arrow_call.val
            y == arrow_call.yest
            both == Numeric(v) /\ Numeric(y)
        IN /\ ~arrow_call.out.raised
           /\ arrow_call.out.text = UpMarker <=> (both /\ NumberOf(v) > NumberOf(y))
           /\ arrow_call.out.text = DownMarker <=> (both /\ NumberOf(v) < NumberOf(y))
           /\ arrow_call.out.text \in {UpMarker, DownMarker, ""}

C24_Witness ==
    /\ arrow_call.returned
    /\ arrow_call.val.kind = "str" /\ arrow_call.yest.kind = "num"
    /\ arrow_call.out.text = DownMarker

\* the lookup of the prior day raised in this run, and the except clause took it
PriorDayFailed == yest.bound /\ yest.absorbed # ""

\* C29: when the lookup of the prior day raises (the function being undefined
\* included), the three prior-day values are None, every trend indicator of the
\* run is empty, and the run goes on to the hourly and the digital-forecast
\* fetch instead of ending in the error path.
C29_PriorDayAbsorbed ==
    /\ ~(pc = "error" /\ err.at = "yesterday")
    /\ PriorDayFailed =>
          /\ yest.temp = NoneVal /\ yest.hum = NoneVal /\ yest.wind = NoneVal
          /\ pc # "hourly" => \E k \in 1..Len(requests) : requests[k].svc = "hourly"
          /\ page.fetched => \E k \in 1..Len(requests) : requests[k].svc = "digital"
          /\ arrows.bound => (arrows.temp = "" /\ arrows.hum = "" /\ arrows.wind = "")
    /\ pc \in {"hourly", "fetch", "select"} => PriorDayFailed

C29_Witness ==
    /\ pc = "done" /\ yest.absorbed = "NameError"
    /\ page.fetched /\ arrows.bound /\ arrows.temp = ""
    /\ \E k \in 1..Len(requests) : requests[k].svc = "digital" /\ requests[k].reached

\* an hour of the pairing is no integer text
BadHour == \E k \in 1..Len(combined) : ~IntOk(combined[k][2])

\* C27: when an hour of the pairing is no integer text the formatting loop raises
\* ValueError: the run ends in the error path with the error message and the
\* suggestion, and builds no record table and no display table, not even of the
\* pairs before the bad hour; a date label that is no month/day does not end the
\* run, its raw text is the date of the display date.
C27_BadHourFatal ==
    /\ (Paired /\ pc # "format" /\ BadHour) =>
          /\ pc = "error" /\ err.at = "format" /\ err.kind = "ValueError"
          /\ {"error", "info"} \subseteq rendered
          /\ rendered \cap DashboardContent = { }
          /\ df = NoDf /\ df_display = NoDf
          /\ app = "app" => csv = NoFile
    /\ (Paired /\ pc # "format" /\ ~BadHour) =>
          /\ ~(pc = "error" /\ err.at = "format")
          /\ Len(formatted) = Len(combined)
          /\ \A k \in 1..Len(combined) :
                ~Strptime(combined[k][1]).ok =>
                    formatted[k] = combined[k][1] \o ", " \o HourStr(combined[k][2])
    /\ (pc = "done" /\ Len(combined) > 0) => (df.built /\ Len(df.rows) = Len(combined))

C27_Witness ==
    /\ pc = "error" /\ err.at = "format"
    /\ Len(combined) = 3 /\ IntOk(combined[1][2]) /\ ~IntOk(combined[2][2])
    /\ ~Strptime(combined[1][1]).ok
    /\ Len(formatted) = 1 /\ df = NoDf

\* C28: in weather_app.py, for every pair with a month/day date label and an
\* hour in 0..23, parse_datetime of the display date the formatting loop made of
\* the pair is a timestamp, not None, with the month, the day and the hour of
\* the pair.
C28_DisplayDateRoundTrip ==
    (app = "weather_app" /\ Formatted) =>
        \A k \in 1..Len(combined) :
            LET date == Strptime(combined[k][1])
                hour == combined[k][2]
            IN (date.ok /\ IntOk(hour) /\ IntVal(hour) \in 0..23) =>
                  LET dt == ParseDatetime(formatted[k])
                  IN /\ dt.ok
                     /\ dt.month = date.month /\ dt.day = date.day
                     /\ dt.hour = IntVal(hour)

\* the value of the last two-cell row of the details region whose label contains
\* word, "N/A" when there is none
LastLabelled(b, word) ==
    LET ks == LabelRows(b, word)
    IN IF ks = { } THEN "N/A"
       ELSE Strip(b.detail[CHOOSE k \in ks : \A j \in ks : j <= k][2])

\* C30: of the rows of the details region only those with exactly two cells
\* count; wind_speed (humidity) is the value of the last of them in document
\* order whose label contains "Wind" ("Humidity"), and a row whose label contains
\* both words gives its value to both fields.
C30_LastLabelRowWins ==
    CurrentAnswered =>
        LET b == CurrentBody
        IN /\ current_weather.humidity = LastLabelled(b, "Humidity")
           /\ current_weather.wind_speed = LastLabelled(b, "Wind")

C30_Witness ==
    /\ CurrentAnswered
    /\ Cardinality(LabelRows(CurrentBody, "Humidity")) = 2
    /\ LabelRows(CurrentBody, "Humidity") \cap LabelRows(CurrentBody, "Wind") # { }
    /\ \E k \in 1..Len(CurrentBody.detail) :
          Len(CurrentBody.detail[k]) = 3 /\ HasSub(CurrentBody.detail[k][1], "Wind")
    /\ current_weather.humidity = "both" /\ current_weather.wind_speed = "both"
====
